---- MODULE Spec2Model ----
(***************************************************************************)
(* Suna-Lite: the CLI read-eval loop (src/main.py), the Agent Core         *)
(* (src/agent/agent.py) and the Tool Framework                             *)
(* (src/agent/tools/base_tool.py) as a state machine.                      *)
(*                                                                         *)
(* Spec          one CLI session: lines are read, each message line is     *)
(*               handed to SunaAgent.process_message, which runs as a      *)
(*               sequence of steps separated by its awaits.                *)
(* RegistrySpec  the ToolRegistry driven through its public operations.    *)
(***************************************************************************)
EXTENDS Naturals, Integers, Sequences, FiniteSets, TLC

\* ------------------------------------------------------------------ bounds
\* largest agent.max_conversation_history the session is started with
MaxHistorySetting == 1
\* message lines per session
MaxTurns == 2
\* tool calls in one model response
MaxToolCalls == 2
\* entries of the ToolRegistry call log kept by RegistrySpec
MaxRegistryCalls == 2
\* pieces a shell command is put together from
MaxCommandPieces == 3
\* largest timeout of a shell execution, in ticks
MaxTimeout == 3
\* longest run of a child process that finishes by itself, in ticks
MaxDuration == 4
\* calls of BrowserTool.execute on one instance
MaxBrowserCalls == 2
\* the most components a path handed to is_safe_path has
MaxPathDepth == 2
\* the most calls of the File Tool in a run
MaxFileCalls == 2

\* ------------------------------------------------------------- vocabulary
FlagNames == {"file_operations", "shell_commands", "web_search", "browser_automation"}

\* BaseTool.name of the five tool classes
ToolNames == {"file_tool", "shell_tool", "tavily_tool", "browser_tool", "web_tool"}

\* the message lines the user types (non-blank, not starting with '/'), in the
\* order typed; no two are alike, so that an entry's place in a list shows
Lines == << "q1", "q2", "q3", "q4" >>

\* texts the model answers with
Texts == {"t1", "t2"}

\* the tool calls a model response is made of. The names asked for are a tool
\* the flags may register and the Web Tool; the argument texts, as the API
\* delivers them, are a JSON object, text that is no JSON, JSON that is no
\* object, and a JSON object with the key tool_name. Every argument text occurs
\* for the File Tool, the well-formed one for the Web Tool.
CallChoices ==
    {c \in {"file_tool", "web_tool"}
            \X {"{\"action\": \"list\"}", "{action", "null", "{\"tool_name\": \"x\"}"} :
        c[1] = "file_tool" \/ c[2] = "{\"action\": \"list\"}"}

SystemPrompt == "system_prompt"
\* the fixed sentences, in English
Apology == "Sorry, an error occurred while processing your request."
ToolResultPrefix == "Tool execution results:"
NoText == ""

\* texts of the exceptions the environment or the interpreter raises
APIErrorText == "APIError"
TypeErrorText == "argument after ** must be a mapping"
KeyErrorText == "'tool_results'"
ToolExceptionText == "tool raised"
NoError == "None"

VARIABLES
    max_conversation_history, \* settings.agent.max_conversation_history
    flags,                    \* settings.tools.*
    conversation_history,     \* interactive_mode's local list
    appended,                 \* every entry appended since the last clear (history)
    turn,                     \* message lines read so far; also the clock
    pc,                       \* where the session is
    tools,                    \* ToolRegistry.tools: the registered names
    enabled,                  \* BaseTool.enabled of the instance of each class
    init_runs,                \* times initialize_tools was entered (history)
    init_done,                \* times initialize_tools returned normally (history)
    message,                  \* process_message's message argument
    messages,                 \* process_message's messages list
    llm_calls,                \* requests sent to the model this turn (history)
    response,                 \* first _call_llm result
    idx,                      \* position of _handle_tool_calls' loop
    results,                  \* _handle_tool_calls' results list
    dispatched,               \* calls of ToolRegistry.execute_tool (history)
    entered,                  \* tools whose execute body was entered (history)
    validated,                \* tools whose validate_params was called (history)
    tool_result,              \* what _handle_tool_calls returned
    final_response,           \* second _call_llm result
    result,                   \* what process_message returned
    faults,                   \* exceptions raised in process_message's try body (history)
    propagated,               \* an exception left process_message
    last_response,            \* RegistrySpec: what execute_tool returned last
    listed,                   \* RegistrySpec: what get_tool_schemas or list_tools
                              \* returned last
    command,                  \* ShellTool: the command handed to _is_command_safe
    platform,                 \* ShellTool.system_info['platform']
    command_safe,             \* ShellTool: whether _is_command_safe was called, and
                              \* what it returned
    shell_pc,                 \* ShellTool._execute_command: where the call is
    behaviour,                \* what the child process does when left alone
    timeout,                  \* _execute_command's timeout argument, in ticks
    elapsed,                  \* ticks since wait_for was entered
    child,                    \* the child process
    signals,                  \* signals sent to the child (history)
    expired,                  \* the state of the child when the timeout expired
    shell_response,           \* what _execute_command returned
    driver,                   \* BrowserTool.driver
    current_url,              \* BrowserTool.current_url
    page_title,               \* BrowserTool.page_title
    simulation_entered,       \* an initialization has left the tool without a
                              \* driver (history)
    browser_calls,            \* calls of BrowserTool.execute so far (history)
    browser_call,             \* the parameters of the last call, and the driver
                              \* it was served with
    browser_response,         \* what BrowserTool.execute returned last
    settings,                 \* a Settings instance
    valid,                    \* whether settings.validate() was called, and what
                              \* it returned
    config_file,              \* the documents at the configuration file's path:
                              \* none when the file is missing
    save_message,             \* what save_to_file printed last
    loaded,                   \* what Settings.load_from_file returned
    options,                  \* the command line: --version, --debug
    startup_pc,               \* where main() stands
    steps,                    \* the startup steps completed, in order
    constructed,              \* the fields of SunaCLI that are set
    logger,                   \* logging.getLogger("suna-lite"): whether it has
                              \* handlers, and its level
    exit_status,              \* the status the process exited with
    helper_call,              \* a call of a function of utils/helpers.py
    helper_result,            \* whether it returned, and what
    files,                    \* the text files of the workspace, by path
    file_calls,               \* how many calls the File Tool has answered
    file_call,                \* the last call of the File Tool
    file_response,            \* what it returned
    last_line,                \* interactive_mode: the last line handled without the agent
    agent_state,              \* Agent.conversation_history and Agent.current_session_id
    work_dir                  \* ShellTool.execute: the working directory resolved

coreVars == << max_conversation_history, flags, conversation_history, appended, turn, pc,
           tools, enabled, init_runs, init_done, message, messages, llm_calls,
           response, idx, results, dispatched, entered, validated, tool_result, final_response,
           result, faults, propagated, last_response, listed >>

\* the variables of the Shell Tool: the safety gate and the execution of a command
gateVars == << command, platform, command_safe >>
runVars == << shell_pc, behaviour, timeout, elapsed, child, signals, expired,
             shell_response >>
shellVars == << gateVars, runVars >>

\* the variables of the Browser Tool
browserVars == << driver, current_url, page_title, simulation_entered, browser_calls,
                 browser_call, browser_response >>

\* the variables of the configuration (config/settings.py)
configVars == << settings, valid, config_file, save_message, loaded >>

\* the variables of the components that are modelled on their own
\* the variables of the process entry point (main.py)
startupVars == << options, startup_pc, steps, constructed, logger, exit_status >>

\* the variables of the helper functions (utils/helpers.py)
helperVars == << helper_call, helper_result >>

\* the variables of the utilities and of the tools modelled last
\* the variables of the File Tool (file_tool.py)
fileVars == << files, file_calls, file_call, file_response >>

\* interactive_mode beyond the message lines (main.py), Agent.reset (agent.py)
replVars == << last_line, agent_state >>

utilityVars == << helperVars, fileVars, replVars, work_dir >>

toolVars == << shellVars, browserVars, configVars, startupVars, utilityVars >>

\* all but the variables of the Shell Tool, of the Browser Tool, of the
\* configuration
notShell == << coreVars, browserVars, configVars, startupVars, utilityVars >>
notBrowser == << coreVars, shellVars, configVars, startupVars, utilityVars >>
notConfig == << coreVars, shellVars, browserVars, startupVars, utilityVars >>

vars == << coreVars, toolVars >>

settingsVars == << max_conversation_history, flags >>
cliVars == << conversation_history, appended, turn >>
registryVars == << tools, enabled >>
turnVars == << message, messages, llm_calls, response, idx, results, dispatched,
               entered, validated, tool_result, final_response, result, faults, propagated >>

\* ------------------------------------------------------------ sequences
Min(a, b) == IF a <= b THEN a ELSE b

\* Python's s[i:] for a start index i that may be negative
SliceFrom(s, i) ==
    LET n == Len(s)
        start == IF i < 0 THEN (IF n + i < 0 THEN 0 ELSE n + i)
                 ELSE (IF i > n THEN n ELSE i)
    IN  SubSeq(s, start + 1, n)

\* the last k entries of s (all of s when it has fewer)
LastK(s, k) == SubSeq(s, Len(s) - Min(k, Len(s)) + 1, Len(s))

\* ------------------------------------------------- Tool Framework (base_tool.py)
ToolResponse(success, text, data, error) ==
    [success |-> success, message |-> text, data |-> data, error |-> error]

\* What a tool's execute body does with the parameters is the environment's
\* choice: "ok" returns a successful ToolResponse, "fail" a failed one, "raise"
\* raises. A failed ToolResponse and a raised exception reach _handle_tool_calls
\* alike, as a ToolResponse with success false, so a turn draws "ok" or "raise".

\* data = None
NoData == {"None"}

\* safe_execute going on to validate_params and execute whatever the enabled flag
safe_execute_no_gate(name, is_enabled, kwargs, outcome) ==
    IF outcome = "raise"
    THEN [response |-> ToolResponse(FALSE, "exception", NoData, ToolExceptionText),
          validated |-> TRUE, executed |-> TRUE]
    ELSE IF outcome = "fail"
    THEN [response |-> ToolResponse(FALSE, "failed", NoData, "failed"),
          validated |-> TRUE, executed |-> TRUE]
    ELSE [response |-> ToolResponse(TRUE, "done", kwargs, NoError),
          validated |-> TRUE, executed |-> TRUE]

\* BaseTool.safe_execute; validated and executed tell whether validate_params was
\* called and whether the execute body was entered.
\* No tool class overrides validate_params, which returns True.
safe_execute(name, is_enabled, kwargs, outcome) ==
    IF ~is_enabled
    THEN [response |-> ToolResponse(FALSE, "unavailable", NoData, "Tool disabled"),
          validated |-> FALSE, executed |-> FALSE]
    ELSE IF outcome = "raise"
    THEN [response |-> ToolResponse(FALSE, "exception", NoData, ToolExceptionText),
          validated |-> TRUE, executed |-> TRUE]
    ELSE IF outcome = "fail"
    THEN [response |-> ToolResponse(FALSE, "failed", NoData, "failed"),
          validated |-> TRUE, executed |-> TRUE]
    ELSE [response |-> ToolResponse(TRUE, "done", kwargs, NoError),
          validated |-> TRUE, executed |-> TRUE]

\* execute_tool looking the name up among all tool instances, not in the registry
execute_tool_any_instance(reg, en, tool_name, kwargs, outcome) ==
    IF tool_name \notin ToolNames
    THEN [response |-> ToolResponse(FALSE, "does not exist", NoData, "Tool not found"),
          validated |-> FALSE, executed |-> FALSE]
    ELSE safe_execute(tool_name, en[tool_name], kwargs, outcome)

\* ToolRegistry.execute_tool on a registry holding the names reg
execute_tool(reg, en, tool_name, kwargs, outcome) ==
    IF tool_name \notin reg
    THEN [response |-> ToolResponse(FALSE, "does not exist", NoData, "Tool not found"),
          validated |-> FALSE, executed |-> FALSE]
    ELSE safe_execute(tool_name, en[tool_name], kwargs, outcome)

\* ToolRegistry.get_available_tools: the registered tools whose is_available() holds
get_available_tools(reg, en) == {n \in reg : en[n]}

\* get_tool_schemas going over every registered tool
get_tool_schemas_all(reg, en) == reg

\* ToolRegistry.get_tool_schemas: the schema (named by its tool) of every available tool
get_tool_schemas(reg, en) == get_available_tools(reg, en)

\* BaseTool.get_info, without the description and the schema
get_info(name, is_enabled) == [name |-> name, enabled |-> is_enabled]

\* ToolRegistry.list_tools: get_info of every value of the tools dict
list_tools(reg, en) == {get_info(n, en[n]) : n \in reg}

NothingListed == [op |-> "none", schemas |-> {}, infos |-> {}]

\* ------------------------------------------------------ Agent Core (agent.py)
\* initialize_tools registering the Web Tool, which it imports, for web_search
ToolsFor_web_tool(f) ==
    (IF f["file_operations"] THEN {"file_tool"} ELSE {})
    \cup (IF f["shell_commands"] THEN {"shell_tool"} ELSE {})
    \cup (IF f["web_search"] THEN {"web_tool"} ELSE {})
    \cup (IF f["browser_automation"] THEN {"browser_tool"} ELSE {})

\* the tools initialize_tools constructs and registers for the flags f
ToolsFor(f) ==
    (IF f["file_operations"] THEN {"file_tool"} ELSE {})
    \cup (IF f["shell_commands"] THEN {"shell_tool"} ELSE {})
    \cup (IF f["web_search"] THEN {"tavily_tool"} ELSE {})
    \cup (IF f["browser_automation"] THEN {"browser_tool"} ELSE {})

\* one entry of a request's message list; summary is the formatted tool
\* results that follow the prefix in the synthetic user message
Msg(role, content) == [role |-> role, content |-> content, summary |-> << >>]

RECURSIVE RoleAndContent(_)
RoleAndContent(h) ==
    IF h = << >> THEN << >>
    ELSE << Msg(Head(h).role, Head(h).content) >> \o RoleAndContent(Tail(h))

\* SunaAgent._build_conversation_context
build_conversation_context(msg, history, n) ==
    << Msg("system", SystemPrompt) >>
    \o (IF history # << >> THEN RoleAndContent(SliceFrom(history, 0 - n)) ELSE << >>)
    \o << Msg("user", msg) >>

\* json.loads on the argument texts: a mapping, a value that is no mapping,
\* or a JSONDecodeError
json_loads(text) ==
    IF text = "{\"action\": \"list\"}" THEN [kind |-> "mapping", keys |-> {"action"}]
    ELSE IF text = "{\"tool_name\": \"x\"}" THEN [kind |-> "mapping", keys |-> {"tool_name"}]
    ELSE IF text = "null" THEN [kind |-> "value", keys |-> {}]
    ELSE [kind |-> "JSONDecodeError", keys |-> {}]

\* the arguments of one tool call after the parsing step of _handle_tool_calls
ParseArguments(arguments) ==
    IF json_loads(arguments).kind = "JSONDecodeError"
    THEN [kind |-> "mapping", keys |-> {}]
    ELSE json_loads(arguments)

\* what evaluating execute_tool(function_name, **arguments) raises before
\* execute_tool is entered, NoError when the call is made: a keyword argument
\* named like one of execute_tool's own parameters cannot be passed on through
\* **kwargs
CallError(arguments) ==
    IF arguments.kind # "mapping" THEN TypeErrorText
    ELSE IF arguments.keys \cap {"self", "tool_name"} # {}
    THEN "got multiple values for argument 'tool_name'"
    ELSE NoError

\* SunaAgent._format_tool_results: one block per result, in order
RECURSIVE format_tool_results(_)
format_tool_results(rs) ==
    IF rs = << >> THEN << >>
    ELSE << [mark |-> IF Head(rs).response.success THEN "ok" ELSE "failed",
             name |-> Head(rs).name,
             tool_call_id |-> Head(rs).tool_call_id] >>
         \o format_tool_results(Tail(rs))

\* the responses the model may give to the first call
ToolCallLists ==
    UNION { { [i \in 1..n |-> [id |-> i, name |-> f[i][1], arguments |-> f[i][2]]]
              : f \in [1..n -> CallChoices] }
            : n \in 1..MaxToolCalls }

NoResponse == [content |-> NoText, tool_calls |-> << >>]
NoToolResult == [success |-> FALSE, response |-> << >>, has_tool_results |-> FALSE,
                 tool_results |-> << >>, error |-> NoError]

\* the two shapes _handle_tool_calls returns
ToolCallsHandled(rs) ==
    [success |-> TRUE, response |-> format_tool_results(rs), has_tool_results |-> TRUE,
     tool_results |-> rs, error |-> NoError]
ToolCallsFailed(e) ==
    [success |-> FALSE,
     response |-> << [mark |-> "text", name |-> "Tool execution failed.", tool_call_id |-> 0] >>,
     has_tool_results |-> FALSE, tool_results |-> << >>, error |-> e]

\* the request _call_llm sends: tools and tool_choice only for a non-empty list
LLMRequest(msgs, tool_schemas) == [messages |-> msgs, tools |-> tool_schemas]

\* process_message, after the tool calls: the two messages appended to the context
WithToolResults(msgs, content, tr) ==
    msgs \o << Msg("assistant", content),
               [role |-> "user", content |-> ToolResultPrefix, summary |-> tr.response] >>
NoResult == [success |-> FALSE, response |-> NoText, error |-> NoError,
             has_tool_results |-> FALSE, tool_results |-> << >>]

\* the two shapes process_message returns
SuccessResult(text, has, trs) ==
    [success |-> TRUE, response |-> text, error |-> NoError,
     has_tool_results |-> has, tool_results |-> trs]
FailureResult(e) ==
    [success |-> FALSE, response |-> Apology, error |-> e,
     has_tool_results |-> FALSE, tool_results |-> << >>]

\* the direct return reading the text from the second response, which there is none of
DirectResult_no_text(resp) == SuccessResult(NoText, FALSE, << >>)

\* process_message's return of the model's text when no tool call was requested
DirectResult(resp) == SuccessResult(resp.content, FALSE, << >>)

\* process_message's return after the synthesis call
SynthesisResult(final, tr) == SuccessResult(final.content, TRUE, tr.tool_results)

\* an except clause that logs and raises again, as the one of _call_llm does
HandleException_reraise(e) == [result |-> NoResult, propagated |-> TRUE]

\* process_message's except clause
HandleException(e) == [result |-> FailureResult(e), propagated |-> FALSE]

\* ------------------------------------------------------- CLI Shell (main.py)
Entry(role, content, clock) == [role |-> role, content |-> content, timestamp |-> clock]

\* "update history" with the reply appended whatever the turn reported
AppendTurn_always(history, user_input, res, clock) ==
    history \o << Entry("user", user_input, clock), Entry("assistant", res.response, clock) >>

\* interactive_mode, "update history": the user's line always, the reply on success
AppendTurn(history, user_input, res, clock) ==
    history \o << Entry("user", user_input, clock) >>
    \o (IF res.success THEN << Entry("assistant", res.response, clock) >> ELSE << >>)

\* interactive_mode, "limit history length"
TrimHistory(history, n) ==
    IF Len(history) > n * 2 THEN SliceFrom(history, (0 - n) * 2) ELSE history

\* ------------------------------------------------------------------ states
BlankTurn ==
    /\ message = NoText
    /\ messages = << >>
    /\ llm_calls = << >>
    /\ response = NoResponse
    /\ idx = 0
    /\ results = << >>
    /\ dispatched = << >>
    /\ entered = << >>
    /\ validated = << >>
    /\ tool_result = NoToolResult
    /\ final_response = NoResponse
    /\ result = NoResult
    /\ faults = << >>
    /\ propagated = FALSE

NotChecked == [called |-> FALSE, value |-> FALSE]

NoToolResponse == ToolResponse(FALSE, NoText, NoData, NoError)

\* no command is being executed
RunIdle ==
    /\ shell_pc = "idle"
    /\ behaviour = [kind |-> "none", duration |-> 0, exit_code |-> 0]
    /\ timeout = 0
    /\ elapsed = 0
    /\ child = "none"
    /\ signals = << >>
    /\ expired = "no"
    /\ shell_response = NoToolResponse

\* the Shell Tool before a command is handed to it
ShellIdle ==
    /\ command = << >>
    /\ platform = "Linux"
    /\ command_safe = NotChecked
    /\ RunIdle

\* None
None == "None"

\* data of a ToolResponse of the Browser Tool: the keys mode, title and url, each
\* with its value or absent
BrowserData(mode, title, url) == [mode |-> mode, title |-> title, url |-> url]
Absent == "absent"
NoBrowserData == BrowserData(Absent, Absent, Absent)

\* BrowserTool.__init__
BrowserIdle ==
    /\ driver = None
    /\ current_url = None
    /\ page_title = None
    /\ simulation_entered = FALSE
    /\ browser_calls = 0
    /\ browser_call = [action |-> None, url |-> None, selector |-> None, driver |-> None]
    /\ browser_response = ToolResponse(FALSE, NoText, NoBrowserData, NoError)

\* ------------------------------------------ values of configuration fields
\* A Python value: its type, its number (a float in tenths), its text, its items.
Value(type, num, text, items) == [type |-> type, num |-> num, text |-> text, items |-> items]
IntValue(n) == Value("int", n, "", << >>)
FloatValue(tenths) == Value("float", tenths, "", << >>)
StrValue(text) == Value("str", 0, text, << >>)
BoolValue(b) == Value("bool", IF b THEN 1 ELSE 0, "", << >>)
NoneValue == Value("NoneType", 0, "", << >>)
ListValue(items) == Value("list", 0, "", items)
DictValue(items) == Value("dict", 0, "", items)

\* Settings(): the dataclass defaults (window_size as the pair width, height)
DefaultSettings ==
    [agent |->
        [model |-> StrValue(""), base_url |-> StrValue(""), api_key |-> StrValue(""),
         max_tokens |-> IntValue(4000), temperature |-> FloatValue(7),
         max_conversation_history |-> IntValue(10)],
     workspace |->
        [path |-> StrValue("./workspace"), max_size_mb |-> IntValue(100),
         auto_cleanup |-> BoolValue(TRUE)],
     browser |->
        [headless |-> BoolValue(TRUE), timeout_seconds |-> IntValue(30),
         window_size |-> DictValue(<< IntValue(1920), IntValue(1080) >>)],
     search |->
        [engine |-> StrValue("tavily"), max_results |-> IntValue(10),
         timeout_seconds |-> IntValue(15), api_key |-> StrValue("")],
     tools |->
        [file_operations |-> BoolValue(TRUE), shell_commands |-> BoolValue(TRUE),
         web_search |-> BoolValue(TRUE), browser_automation |-> BoolValue(TRUE)],
     logging |->
        [level |-> StrValue("INFO"), file |-> StrValue("./suna-lite.log"),
         max_size_mb |-> IntValue(10), backup_count |-> IntValue(5)],
     security |->
        [allow_network |-> BoolValue(TRUE), allowed_domains |-> ListValue(<< >>),
         block_shell_commands |->
            ListValue(<< StrValue("rm -rf"), StrValue("format"), StrValue("del") >>)]]

NotValidated == [called |-> FALSE, value |-> FALSE]
Missing == {}
NotLoaded == [called |-> FALSE, value |-> DefaultSettings]

\* no Settings operation has been carried out
ConfigIdle ==
    /\ settings = DefaultSettings
    /\ valid = NotValidated
    /\ config_file = Missing
    /\ save_message = "none"
    /\ loaded = NotLoaded

\* main() has not been entered
StartupIdle ==
    /\ options = [version |-> FALSE, debug |-> FALSE]
    /\ startup_pc = "idle"
    /\ steps = << >>
    /\ constructed = {}
    /\ logger = [handlers |-> FALSE, level |-> "NOTSET"]
    /\ exit_status = "running"

NoHelperCall == [fn |-> "none", path |-> << >>, base_path |-> << >>, filename |-> << >>]
NoHelperResult == [done |-> FALSE, safe |-> FALSE, filename |-> << >>]

\* no helper function has been called
HelperIdle ==
    /\ helper_call = NoHelperCall
    /\ helper_result = NoHelperResult

\* the data of a File Tool response: the keys it has are those that are not None
FileData(type, content, length, full_length, path) ==
    [type |-> type, content |-> content, length |-> length, full_length |-> full_length,
     path |-> path]
NoFileCall == [action |-> "none", path |-> << >>, content |-> << >>]
NoFileResponse ==
    [success |-> FALSE, error |-> NoError, data |-> FileData(None, << >>, -1, -1, << >>)]

\* the File Tool has not been called and the workspace is empty
FileIdle ==
    /\ files = << >>
    /\ file_calls = 0
    /\ file_call = NoFileCall
    /\ file_response = NoFileResponse

\* no line has been handled without the agent; Agent.__init__ has run
ReplIdle ==
    /\ last_line = [kind |-> "none", outcome |-> "none"]
    /\ agent_state = [conversation_history |-> << >>, current_session_id |-> None]

\* the utilities and the tools modelled last, untouched
UtilityIdle == HelperIdle /\ FileIdle /\ ReplIdle /\ work_dir = "unresolved"

\* the components modelled on their own, untouched
ToolsIdle == ShellIdle /\ BrowserIdle /\ ConfigIdle /\ StartupIdle /\ UtilityIdle

\* the session and the registry before anything is done with them
CoreIdle ==
    /\ max_conversation_history = MaxHistorySetting
    /\ flags = [f \in FlagNames |-> TRUE]
    /\ conversation_history = << >>
    /\ appended = << >>
    /\ turn = 0
    /\ pc = "idle"
    /\ tools = {}
    /\ enabled = [n \in ToolNames |-> TRUE]
    /\ init_runs = 0
    /\ init_done = 0
    /\ BlankTurn
    /\ last_response = ToolResponse(FALSE, NoText, NoData, NoError)
    /\ listed = NothingListed

Init ==
    /\ max_conversation_history \in 0..MaxHistorySetting
    /\ flags \in [FlagNames -> BOOLEAN]
    /\ conversation_history = << >>
    /\ appended = << >>
    /\ turn = 0
    /\ pc = "prompt"
    /\ tools = {}
    /\ enabled = [n \in ToolNames |-> TRUE]
    /\ init_runs = 0
    /\ init_done = 0
    /\ BlankTurn
    /\ last_response = ToolResponse(FALSE, NoText, NoData, NoError)
    /\ listed = NothingListed
    /\ ToolsIdle

\* the locals of a turn go out of scope
ResetTurn ==
    /\ message' = NoText
    /\ messages' = << >>
    /\ llm_calls' = << >>
    /\ response' = NoResponse
    /\ idx' = 0
    /\ results' = << >>
    /\ dispatched' = << >>
    /\ entered' = << >>
    /\ validated' = << >>
    /\ tool_result' = NoToolResult
    /\ final_response' = NoResponse
    /\ result' = NoResult
    /\ faults' = << >>
    /\ propagated' = FALSE

\* the except clause of process_message takes over with the exception e
Caught(e) ==
    /\ faults' = Append(faults, e)
    /\ result' = HandleException(e).result
    /\ propagated' = HandleException(e).propagated
    /\ pc' = "return"

\* ----------------------------------------------------- interactive_mode
\* a message line is read and process_message is called with it
ReadMessage(line) ==
    /\ pc = "prompt"
    /\ turn < MaxTurns
    /\ turn < Len(Lines)
    /\ turn' = turn + 1
    /\ message' = line
    /\ pc' = "ensure_tools"
    /\ UNCHANGED << settingsVars, conversation_history, appended, registryVars, init_runs,
                    init_done, messages, llm_calls, response, idx, results, dispatched,
                    entered, validated, tool_result, final_response, result, faults, propagated,
                    last_response, listed, toolVars >>

\* /clear
SlashClear ==
    /\ pc = "prompt"
    /\ conversation_history' = << >>
    /\ appended' = << >>
    /\ UNCHANGED << settingsVars, turn, pc, registryVars, init_runs, init_done, turnVars,
                    last_response, listed, toolVars >>

\* /exit and /quit
SlashExit ==
    /\ pc = "prompt"
    /\ pc' = "exited"
    /\ UNCHANGED << settingsVars, cliVars, registryVars, init_runs, init_done, turnVars,
                    last_response, listed, toolVars >>

\* process_message has returned: the reply is shown, the history updated and trimmed
EndTurn ==
    /\ pc = "return"
    /\ IF propagated
       THEN UNCHANGED << conversation_history, appended >>
       ELSE /\ conversation_history' =
                 TrimHistory(AppendTurn(conversation_history, message, result, turn),
                             max_conversation_history)
            /\ appended' = AppendTurn(appended, message, result, turn)
    /\ pc' = "prompt"
    /\ ResetTurn
    /\ UNCHANGED << settingsVars, turn, registryVars, init_runs, init_done, last_response,
                    listed, toolVars >>

\* ------------------------------------------------------- process_message
\* the registry is empty: initialize_tools runs and registers the flagged tools
InitializeTools ==
    /\ pc = "ensure_tools"
    /\ tools = {}
    /\ init_runs' = init_runs + 1
    /\ init_done' = init_done + 1
    /\ tools' = tools \cup ToolsFor(flags)
    /\ enabled' = [n \in ToolNames |-> IF n \in ToolsFor(flags) THEN TRUE ELSE enabled[n]]
    /\ pc' = "llm1"
    /\ UNCHANGED << settingsVars, cliVars, turnVars, last_response, listed, toolVars >>

\* the registry is empty: initialize_tools runs and an import or a constructor raises
InitializeToolsFails ==
    /\ pc = "ensure_tools"
    /\ tools = {}
    /\ init_runs' = init_runs + 1
    /\ Caught("ImportError")
    /\ UNCHANGED << settingsVars, cliVars, registryVars, init_done, message, messages,
                    llm_calls, response, idx, results, dispatched, entered, validated, tool_result,
                    final_response, last_response, listed, toolVars >>

\* the registry holds a tool: initialize_tools is skipped
SkipInitializeTools ==
    /\ pc = "ensure_tools"
    /\ tools # {}
    /\ pc' = "llm1"
    /\ UNCHANGED << settingsVars, cliVars, registryVars, init_runs, init_done, turnVars,
                    last_response, listed, toolVars >>

\* the context is built and the first request is sent
SendFirst ==
    /\ pc = "llm1"
    /\ messages' = build_conversation_context(message, conversation_history,
                                               max_conversation_history)
    /\ llm_calls' = Append(llm_calls, LLMRequest(messages', get_tool_schemas(tools, enabled)))

\* the first model call raises
LLMFirstFails ==
    /\ SendFirst
    /\ Caught(APIErrorText)
    /\ UNCHANGED << settingsVars, cliVars, registryVars, init_runs, init_done, message,
                    response, idx, results, dispatched, entered, validated, tool_result,
                    final_response, last_response, listed, toolVars >>

\* the first model call answers with text and no tool call
LLMFirstAnswers(t) ==
    /\ SendFirst
    /\ response' = [content |-> t, tool_calls |-> << >>]
    /\ result' = DirectResult(response')
    /\ pc' = "return"
    /\ UNCHANGED << settingsVars, cliVars, registryVars, init_runs, init_done, message,
                    idx, results, dispatched, entered, validated, tool_result,
                    final_response, faults, propagated, last_response, listed, toolVars >>

\* the first model call answers with tool calls
LLMFirstRequestsTools(t, tcs) ==
    /\ SendFirst
    /\ response' = [content |-> t, tool_calls |-> tcs]
    /\ idx' = 1
    /\ pc' = "tools"
    /\ UNCHANGED << settingsVars, cliVars, registryVars, init_runs, init_done, message,
                    results, dispatched, entered, validated, tool_result, final_response, result,
                    faults, propagated, last_response, listed, toolVars >>

\* one iteration of _handle_tool_calls' loop whose arguments can be passed
DispatchToolCall(outcome) ==
    /\ pc = "tools"
    /\ idx <= Len(response.tool_calls)
    /\ LET tc == response.tool_calls[idx]
           arguments == ParseArguments(tc.arguments)
           r == execute_tool(tools, enabled, tc.name, arguments.keys, outcome)
       IN  /\ CallError(arguments) = NoError
           /\ dispatched' = Append(dispatched,
                  [tool_call_id |-> tc.id, name |-> tc.name, kwargs |-> arguments.keys])
           /\ entered' = IF r.executed THEN Append(entered, tc.name) ELSE entered
           /\ validated' = IF r.validated THEN Append(validated, tc.name) ELSE validated
           /\ results' = Append(results,
                  [tool_call_id |-> tc.id, name |-> tc.name, response |-> r.response])
    /\ idx' = idx + 1
    /\ UNCHANGED << settingsVars, cliVars, pc, registryVars, init_runs, init_done, message,
                    messages, llm_calls, response, tool_result, final_response, result,
                    faults, propagated, last_response, listed, toolVars >>

\* one iteration whose arguments are no mapping or name a parameter of
\* execute_tool: passing them raises a TypeError, which the except clause of
\* _handle_tool_calls turns into its failure result
ToolCallRaises ==
    /\ pc = "tools"
    /\ idx <= Len(response.tool_calls)
    /\ CallError(ParseArguments(response.tool_calls[idx].arguments)) # NoError
    /\ tool_result' =
           ToolCallsFailed(CallError(ParseArguments(response.tool_calls[idx].arguments)))
    /\ pc' = "llm2"
    /\ UNCHANGED << settingsVars, cliVars, registryVars, init_runs, init_done, message,
                    messages, llm_calls, response, idx, results, dispatched, entered, validated,
                    final_response, result, faults, propagated, last_response, listed, toolVars >>

\* the loop is over: the results are formatted and returned
FinishToolCalls ==
    /\ pc = "tools"
    /\ idx > Len(response.tool_calls)
    /\ tool_result' = ToolCallsHandled(results)
    /\ pc' = "llm2"
    /\ UNCHANGED << settingsVars, cliVars, registryVars, init_runs, init_done, message,
                    messages, llm_calls, response, idx, results, dispatched, entered, validated,
                    final_response, result, faults, propagated, last_response, listed, toolVars >>

\* the interim content and the tool results are appended, the second request is sent
SendSecond ==
    /\ pc = "llm2"
    /\ messages' = WithToolResults(messages, response.content, tool_result)
    /\ llm_calls' = Append(llm_calls, LLMRequest(messages', {}))

\* the second model call raises
LLMSecondFails ==
    /\ SendSecond
    /\ Caught(APIErrorText)
    /\ UNCHANGED << settingsVars, cliVars, registryVars, init_runs, init_done, message,
                    response, idx, results, dispatched, entered, validated, tool_result,
                    final_response, last_response, listed, toolVars >>

\* the second model call answers; building the result reads tool_result['tool_results']
LLMSecondAnswers(t) ==
    /\ SendSecond
    /\ final_response' = [content |-> t, tool_calls |-> << >>]
    /\ IF tool_result.has_tool_results
       THEN /\ result' = SynthesisResult(final_response', tool_result)
            /\ pc' = "return"
            /\ UNCHANGED << faults, propagated >>
       ELSE Caught(KeyErrorText)
    /\ UNCHANGED << settingsVars, cliVars, registryVars, init_runs, init_done, message,
                    response, idx, results, dispatched, entered, validated, tool_result,
                    last_response, listed, toolVars >>

Next ==
    \/ ReadMessage(Lines[turn + 1])
    \/ SlashClear
    \/ SlashExit
    \/ EndTurn
    \/ InitializeTools
    \/ InitializeToolsFails
    \/ SkipInitializeTools
    \/ LLMFirstFails
    \/ \E t \in Texts : LLMFirstAnswers(t)
    \* "thinking": the content that comes with a response asking for tool calls
    \/ \E t \in {"thinking"}, tcs \in ToolCallLists : LLMFirstRequestsTools(t, tcs)
    \/ \E outcome \in {"ok", "raise"} : DispatchToolCall(outcome)
    \/ ToolCallRaises
    \/ FinishToolCalls
    \/ LLMSecondFails
    \/ \E t \in Texts : LLMSecondAnswers(t)

Spec == Init /\ [][Next]_vars

\* ------------------------------------- interactive_mode, the other lines
\* the session of Spec with every tool flag on
ReplInit ==
    /\ Init
    /\ flags = [f \in FlagNames |-> TRUE]

replFrame ==
    << settingsVars, cliVars, registryVars, init_runs, init_done, turnVars, last_response,
       listed, shellVars, browserVars, configVars, startupVars, helperVars, fileVars,
       work_dir >>

\* the stripped line is empty: continue
BlankLine ==
    /\ pc = "prompt"
    /\ last_line' = [kind |-> "blank", outcome |-> "skipped"]
    /\ UNCHANGED << pc, agent_state, replFrame >>

\* /reset with the running history handed to Agent.reset as well
SlashReset_with_history ==
    /\ pc = "prompt"
    /\ agent_state' = [conversation_history |-> << >>, current_session_id |-> None]
    /\ conversation_history' = << >>
    /\ last_line' = [kind |-> "/reset", outcome |-> "done"]
    /\ UNCHANGED << pc, settingsVars, appended, turn, registryVars, init_runs, init_done,
                    turnVars, last_response, listed, shellVars, browserVars, configVars,
                    startupVars, helperVars, fileVars, work_dir >>

\* /reset: Agent.reset clears the agent's own list and session id
SlashReset ==
    /\ pc = "prompt"
    /\ agent_state' = [conversation_history |-> << >>, current_session_id |-> None]
    /\ last_line' = [kind |-> "/reset", outcome |-> "done"]
    /\ UNCHANGED << pc, replFrame >>

\* a command that only displays: /help, /workspace, /config, /history, /stats,
\* /tools and an unknown command
SlashDisplay(c) ==
    /\ pc = "prompt"
    /\ last_line' = [kind |-> c, outcome |-> "done"]
    /\ UNCHANGED << pc, agent_state, replFrame >>

\* the except Exception clause with the loop left
LineRaises_leaves(k) ==
    /\ pc = "prompt"
    /\ last_line' = [kind |-> k, outcome |-> "error reported"]
    /\ pc' = "exited"
    /\ UNCHANGED << agent_state, replFrame >>

\* console.input or a command raises an Exception: the except Exception
\* clause prints it and the loop goes on
LineRaises(k) ==
    /\ pc = "prompt"
    /\ last_line' = [kind |-> k, outcome |-> "error reported"]
    /\ pc' = "prompt"
    /\ UNCHANGED << agent_state, replFrame >>

\* KeyboardInterrupt anywhere in the try body: goodbye, break
Interrupt ==
    /\ pc # "exited"
    /\ last_line' = [kind |-> "interrupt", outcome |-> "goodbye"]
    /\ pc' = "exited"
    /\ UNCHANGED << agent_state, replFrame >>

ReplNext ==
    \/ Next
    \/ BlankLine
    \/ SlashReset
    \/ \E c \in {"/help", "/workspace"} : SlashDisplay(c)
    \/ \E k \in {"input", "/workspace"} : LineRaises(k)
    \/ Interrupt

ReplSpec == ReplInit /\ [][ReplNext]_vars

\* ------------------------------------------------- ToolRegistry on its own
\* the tool instances handed to the registry, and the names asked of it
RegistryTools == {"file_tool", "web_tool"}
RegistryNames == RegistryTools \cup {"not_a_tool"}

RegistryInit ==
    /\ max_conversation_history = MaxHistorySetting
    /\ flags = [f \in FlagNames |-> TRUE]
    /\ conversation_history = << >>
    /\ appended = << >>
    /\ turn = 0
    /\ pc = "registry"
    /\ tools = {}
    /\ enabled = [n \in ToolNames |-> TRUE]
    /\ init_runs = 0
    /\ init_done = 0
    /\ BlankTurn
    /\ last_response = ToolResponse(FALSE, NoText, NoData, NoError)
    /\ listed = NothingListed
    /\ ToolsIdle

registryFrame == << settingsVars, cliVars, pc, init_runs, init_done, message, messages,
                    llm_calls, response, idx, results, tool_result, final_response,
                    result, faults, propagated, toolVars >>

\* ToolRegistry.register
register(tool) ==
    /\ pc = "registry"
    /\ tools' = tools \cup {tool}
    /\ UNCHANGED << enabled, dispatched, entered, validated, last_response, listed,
                    registryFrame >>

\* ToolRegistry.unregister
unregister(tool_name) ==
    /\ pc = "registry"
    /\ tools' = IF tool_name \in tools THEN tools \ {tool_name} ELSE tools
    /\ UNCHANGED << enabled, dispatched, entered, validated, last_response, listed,
                    registryFrame >>

\* ToolRegistry.clear
clear ==
    /\ pc = "registry"
    /\ tools' = {}
    /\ UNCHANGED << enabled, dispatched, entered, validated, last_response, listed,
                    registryFrame >>

\* ToolRegistry.enable_tool
enable_tool(tool_name) ==
    /\ pc = "registry"
    /\ enabled' = IF tool_name \in tools THEN [enabled EXCEPT ![tool_name] = TRUE]
                  ELSE enabled
    /\ UNCHANGED << tools, dispatched, entered, validated, last_response, listed,
                    registryFrame >>

\* ToolRegistry.disable_tool
disable_tool(tool_name) ==
    /\ pc = "registry"
    /\ enabled' = IF tool_name \in tools THEN [enabled EXCEPT ![tool_name] = FALSE]
                  ELSE enabled
    /\ UNCHANGED << tools, dispatched, entered, validated, last_response, listed,
                    registryFrame >>

\* a call of ToolRegistry.execute_tool, logged
ExecuteTool(tool_name, outcome) ==
    /\ pc = "registry"
    /\ Len(dispatched) < MaxRegistryCalls
    /\ LET r == execute_tool(tools, enabled, tool_name, {}, outcome)
       IN  /\ last_response' = r.response
           /\ entered' = IF r.executed THEN Append(entered, tool_name) ELSE entered
           /\ validated' = IF r.validated THEN Append(validated, tool_name) ELSE validated
    /\ dispatched' = Append(dispatched,
           [tool_call_id |-> Len(dispatched) + 1, name |-> tool_name, kwargs |-> {}])
    /\ UNCHANGED << tools, enabled, listed, registryFrame >>

\* a call of ToolRegistry.get_tool_schemas
GetToolSchemas ==
    /\ pc = "registry"
    /\ listed' = [op |-> "get_tool_schemas", schemas |-> get_tool_schemas(tools, enabled),
                  infos |-> {}]
    /\ UNCHANGED << tools, enabled, dispatched, entered, validated, last_response,
                    registryFrame >>

\* a call of ToolRegistry.list_tools
ListTools ==
    /\ pc = "registry"
    /\ listed' = [op |-> "list_tools", schemas |-> {}, infos |-> list_tools(tools, enabled)]
    /\ UNCHANGED << tools, enabled, dispatched, entered, validated, last_response,
                    registryFrame >>

RegistryNext ==
    \/ \E t \in RegistryTools : register(t)
    \/ \E n \in RegistryNames : unregister(n)
    \/ clear
    \/ \E n \in RegistryNames : enable_tool(n)
    \/ \E n \in RegistryNames : disable_tool(n)
    \/ \E n \in RegistryNames, outcome \in {"ok", "fail", "raise"} : ExecuteTool(n, outcome)
    \/ GetToolSchemas
    \/ ListTools

RegistrySpec == RegistryInit /\ [][RegistryNext]_vars

\* ------------------------------------------------- Shell Tool (shell_tool.py)
\* A command is the sequence of its characters.
\* ShellTool.__init__: dangerous_commands, the literals common to all platforms
\* and those added on Windows or on every other platform
dangerous_commands(system) ==
    LET CommonDangerousCommands ==
            { << "r", "m", " ", "-", "r", "f", " ", "/" >>,
              << "f", "o", "r", "m", "a", "t" >>,
              << "d", "e", "l", " ", "/", "f", " ", "/", "s", " ", "/", "q" >>,
              << "s", "h", "u", "t", "d", "o", "w", "n" >>,
              << "r", "e", "b", "o", "o", "t" >>,
              << "h", "a", "l", "t" >>,
              << "p", "o", "w", "e", "r", "o", "f", "f" >>,
              << "m", "k", "f", "s" >>,
              << "d", "d", " ", "i", "f", "=", "/", "d", "e", "v", "/", "z", "e", "r", "o" >>,
              << "c", "h", "m", "o", "d", " ", "-", "R", " ", "7", "7", "7", " ", "/" >>,
              << "c", "h", "o", "w", "n", " ", "-", "R", " ", "r", "o", "o", "t", ":", "r", "o", "o", "t", " ", "/" >>,
              << "m", "v", " ", "/", " ", "/", "d", "e", "v", "/", "n", "u", "l", "l" >>,
              << ">", " ", "/", "d", "e", "v", "/", "s", "d", "a" >>,
              << "w", "g", "e", "t", " ", "h", "t", "t", "p", ":", "/", "/", "m", "a", "l", "i", "c", "i", "o", "u", "s" >>,
              << "c", "u", "r", "l", " ", "h", "t", "t", "p", ":", "/", "/", "m", "a", "l", "i", "c", "i", "o", "u", "s" >>,
              << "n", "c", " ", "-", "l", " ", "-", "p" >>,
              << "n", "c", "a", "t", " ", "-", "l", " ", "-", "p" >>,
              << "s", "o", "c", "a", "t", " ", "T", "C", "P", "-", "L", "I", "S", "T", "E", "N" >>,
              << "p", "y", "t", "h", "o", "n", " ", "-", "m", " ", "S", "i", "m", "p", "l", "e", "H", "T", "T", "P", "S", "e", "r", "v", "e", "r" >> }
        WindowsDangerousCommands ==
            { << "r", "m", "d", "i", "r", " ", "/", "s", " ", "/", "q", " ", "\\" >>,
              << "d", "e", "l", " ", "/", "f", " ", "/", "s", " ", "/", "q", " ", "\\", "*", ".", "*" >>,
              << "f", "o", "r", "m", "a", "t", " ", "c", ":" >>,
              << "b", "o", "o", "t", "r", "e", "c" >>,
              << "b", "c", "d", "e", "d", "i", "t" >>,
              << "d", "i", "s", "k", "p", "a", "r", "t" >>,
              << "r", "e", "g", " ", "d", "e", "l", "e", "t", "e" >> }
        UnixDangerousCommands ==
            { << ":", "(", ")", "{", " ", ":", "|", ":", "&", " ", "}", ";", ":" >>,
              << "f", "o", "r", "k", " ", "b", "o", "m", "b" >>,
              << "s", "u", "d", "o", " ", "r", "m", " ", "-", "r", "f", " ", "/" >>,
              << "c", "h", "m", "o", "d", " ", "7", "7", "7", " ", "/", "e", "t", "c", "/", "p", "a", "s", "s", "w", "d" >>,
              << "u", "s", "e", "r", "d", "e", "l", " ", "-", "r" >> }
    IN  CommonDangerousCommands
        \cup (IF system = "Windows" THEN WindowsDangerousCommands ELSE UnixDangerousCommands)

\* _is_command_safe: dangerous_chars ("backquote" stands for the character `)
dangerous_chars ==
    { << ";" >>,
      << "|" >>,
      << "&" >>,
      << "backquote" >>,
      << "$", "(" >>,
      << "&", "&" >>,
      << "|", "|" >>,
      << ">" >>,
      << ">", ">" >>,
      << "<" >> }

RECURSIVE Flatten(_)
Flatten(ps) == IF ps = << >> THEN << >> ELSE Head(ps) \o Flatten(Tail(ps))

\* the commands handed to the gate, put together from pieces
Commands ==
    LET CommandPieces ==
            { << "H", "a" >>,
              << "l", "t" >>,
              << "r", "m", " ", "-", "r", "f", " ", "/" >>,
              << "b", "o", "o", "t", "r", "e", "c" >>,
              << ";" >>,
              << "&" >>,
              << "&", "&" >>,
              << "$", "(" >>,
              << ">" >>,
              << " " >> }
    IN  UNION { { Flatten(ps) : ps \in [1..n -> CommandPieces] } : n \in 0..MaxCommandPieces }

\* str.lower on one character (the capitals that occur in the literals)
LowerChar(c) ==
    CASE c = "C" -> "c"
      [] c = "E" -> "e"
      [] c = "H" -> "h"
      [] c = "I" -> "i"
      [] c = "L" -> "l"
      [] c = "N" -> "n"
      [] c = "P" -> "p"
      [] c = "R" -> "r"
      [] c = "S" -> "s"
      [] c = "T" -> "t"
      [] OTHER -> c

\* str.lower
lower(str) == [i \in 1..Len(str) |-> LowerChar(str[i])]

\* str.strip: leading and trailing blanks removed
strip(str) ==
    LET RECURSIVE lstrip(_)
        lstrip(t) == IF t # << >> /\ Head(t) = " " THEN lstrip(Tail(t)) ELSE t
        RECURSIVE rstrip(_)
        rstrip(t) ==
            IF t # << >> /\ t[Len(t)] = " " THEN rstrip(SubSeq(t, 1, Len(t) - 1)) ELSE t
    IN  rstrip(lstrip(str))

\* str starts with sub at position i
MatchAt(str, sub, i) ==
    /\ i + Len(sub) - 1 <= Len(str)
    /\ SubSeq(str, i, i + Len(sub) - 1) = sub

\* sub in str
In(sub, str) == \E i \in 1..Len(str) + 1 : MatchAt(str, sub, i)

\* str.count(sub): the occurrences that do not overlap, from the left
count(str, sub) ==
    LET RECURSIVE CountFrom(_)
        CountFrom(i) ==
            IF i + Len(sub) - 1 > Len(str) THEN 0
            ELSE IF MatchAt(str, sub, i) THEN 1 + CountFrom(i + Len(sub))
            ELSE CountFrom(i + 1)
    IN  CountFrom(1)

\* _is_command_safe comparing the literals with the command as typed
is_command_safe_as_typed(cmd, system) ==
    /\ \A dangerous \in dangerous_commands(system) : ~In(lower(dangerous), strip(cmd))
    /\ \A char \in dangerous_chars : ~(In(char, cmd) /\ count(cmd, char) > 2)

\* ShellTool._is_command_safe
is_command_safe(cmd, system) ==
    LET command_lower == strip(lower(cmd))
    IN  /\ \A dangerous \in dangerous_commands(system) :
               ~In(lower(dangerous), command_lower)
        /\ \A char \in dangerous_chars : ~(In(char, cmd) /\ count(cmd, char) > 2)

\* the rest of the model stands still while a component is exercised on its own
ShellGateInit ==
    /\ CoreIdle
    /\ command \in Commands
    /\ platform \in {"Windows", "Linux"}
    /\ command_safe = NotChecked
    /\ RunIdle
    /\ BrowserIdle
    /\ ConfigIdle
    /\ StartupIdle
    /\ UtilityIdle

\* the safety check of ShellTool.execute
IsCommandSafe ==
    /\ pc = "idle"
    /\ command_safe = NotChecked
    /\ command_safe' = [called |-> TRUE, value |-> is_command_safe(command, platform)]
    /\ UNCHANGED << notShell, command, platform, runVars >>

ShellGateNext == IsCommandSafe

ShellGateSpec == ShellGateInit /\ [][ShellGateNext]_vars

\* ------------------------------------ ShellTool._execute_command (shell_tool.py)
\* Time passes in ticks. A child either cannot be started, or runs for a number
\* of ticks and exits with a code, or never exits by itself.
Behaviours ==
    {[kind |-> k, duration |-> 0, exit_code |-> 0] : k \in {"fails_to_start", "runs_forever"}}
    \cup {[kind |-> "finishes", duration |-> d, exit_code |-> c] :
              d \in 0..MaxDuration, c \in {0, 1}}

\* the three ToolResponses of _execute_command
CompletedResponse(exit_code) ==
    ToolResponse(exit_code = 0, "completed", {exit_code}, NoError)
TimeoutResponse ==
    ToolResponse(FALSE, "timeout", NoData, "Command execution timeout")
ExceptionResponse(e) == ToolResponse(FALSE, "exception", NoData, e)

\* process.kill() on a child the event loop has not seen exit: SIGKILL
kill(c) == IF c = "running" THEN "killed" ELSE c

ShellRunInit ==
    /\ CoreIdle
    /\ command = << >>
    /\ platform = "Linux"
    /\ command_safe = NotChecked
    /\ shell_pc = "spawn"
    /\ behaviour \in Behaviours
    /\ timeout \in 1..MaxTimeout
    /\ elapsed = 0
    /\ child = "none"
    /\ signals = << >>
    /\ expired = "no"
    /\ shell_response = NoToolResponse
    /\ BrowserIdle
    /\ ConfigIdle
    /\ StartupIdle
    /\ UtilityIdle

shellRunFrame == << notShell, gateVars, behaviour, timeout >>

\* create_subprocess_exec starts the child
Spawn ==
    /\ shell_pc = "spawn"
    /\ behaviour.kind # "fails_to_start"
    /\ child' = "running"
    /\ shell_pc' = "communicate"
    /\ UNCHANGED << elapsed, signals, expired, shell_response, shellRunFrame >>

\* create_subprocess_exec raises; the outer except clause returns the failure
SpawnFails ==
    /\ shell_pc = "spawn"
    /\ behaviour.kind = "fails_to_start"
    /\ shell_response' = ExceptionResponse("No such file or directory")
    /\ shell_pc' = "returned"
    /\ UNCHANGED << elapsed, child, signals, expired, shellRunFrame >>

\* a tick of the clock while wait_for(process.communicate(), timeout) is pending
Tick ==
    /\ shell_pc = "communicate"
    /\ elapsed < timeout
    /\ elapsed' = elapsed + 1
    /\ UNCHANGED << shell_pc, child, signals, expired, shell_response, shellRunFrame >>

\* the child exits by itself, its run being over, and the event loop takes note
ChildExits ==
    /\ child = "running"
    /\ behaviour.kind = "finishes"
    /\ elapsed >= behaviour.duration
    /\ child' = "exited"
    /\ UNCHANGED << shell_pc, elapsed, signals, expired, shell_response, shellRunFrame >>

\* communicate() returns within the timeout: the result is built from the exit code
CommunicateReturns ==
    /\ shell_pc = "communicate"
    /\ child = "exited"
    /\ child' = "reaped"
    /\ shell_response' = CompletedResponse(behaviour.exit_code)
    /\ shell_pc' = "returned"
    /\ UNCHANGED << elapsed, signals, expired, shellRunFrame >>

\* wait_for raises asyncio.TimeoutError
TimeoutExpires ==
    /\ shell_pc = "communicate"
    /\ elapsed >= timeout
    /\ expired' = child
    /\ shell_pc' = "timed_out"
    /\ UNCHANGED << elapsed, child, signals, shell_response, shellRunFrame >>

\* the except clause: process.kill()
Kill ==
    /\ shell_pc = "timed_out"
    /\ child = "running"
    /\ child' = kill(child)
    /\ signals' = Append(signals, "SIGKILL")
    /\ shell_pc' = "wait"
    /\ UNCHANGED << elapsed, expired, shell_response, shellRunFrame >>

\* the except clause: process.kill() on a child that has exited meanwhile raises
\* ProcessLookupError, which the outer except clause turns into its failure
KillRaises ==
    /\ shell_pc = "timed_out"
    /\ child = "exited"
    /\ child' = "reaped"
    \* str(ProcessLookupError()) is empty
    /\ shell_response' = ExceptionResponse("")
    /\ shell_pc' = "returned"
    /\ UNCHANGED << elapsed, signals, expired, shellRunFrame >>

\* the killed child terminates
ChildDies ==
    /\ child = "killed"
    /\ child' = "exited"
    /\ UNCHANGED << shell_pc, elapsed, signals, expired, shell_response, shellRunFrame >>

\* the except clause: process.wait() returns and the timeout failure is returned
WaitReturns ==
    /\ shell_pc = "wait"
    /\ child = "exited"
    /\ child' = "reaped"
    /\ shell_response' = TimeoutResponse
    /\ shell_pc' = "returned"
    /\ UNCHANGED << elapsed, signals, expired, shellRunFrame >>

ShellRunNext ==
    \/ Spawn
    \/ SpawnFails
    \/ Tick
    \/ ChildExits
    \/ CommunicateReturns
    \/ TimeoutExpires
    \/ Kill
    \/ KillRaises
    \/ ChildDies
    \/ WaitReturns

\* the event loop keeps running its timers and callbacks, and the operating
\* system ends a process that was sent SIGKILL
ShellRunSpec == ShellRunInit /\ [][ShellRunNext]_vars /\ WF_vars(ShellRunNext)

\* ------------------------------------------ ShellTool.execute (shell_tool.py)
\* a call of execute: the command as handed over, blank, safe or unsafe, and a
\* child of each kind
ShellExecuteInit ==
    /\ CoreIdle
    /\ command \in {<< >>, << " " >>, << "l", "t" >>, << " ", "l", "t", " " >>,
                    << "H", "a", "l", "t" >>, << "b", "o", "o", "t", "r", "e", "c" >>,
                    << "&", "&", ";", ";", ";" >>, << " ", ";", ";", ";", " " >>}
    /\ platform \in {"Windows", "Linux"}
    /\ command_safe = NotChecked
    /\ shell_pc = "execute"
    /\ behaviour \in {b \in Behaviours : b.exit_code = 0 /\ b.duration <= 2}
    /\ timeout = 1
    /\ elapsed = 0
    /\ child = "none"
    /\ signals = << >>
    /\ expired = "no"
    /\ shell_response = NoToolResponse
    /\ BrowserIdle
    /\ ConfigIdle
    /\ StartupIdle
    /\ UtilityIdle

shellExecuteFrame ==
    << coreVars, browserVars, configVars, startupVars, helperVars, fileVars, replVars,
       command, platform, behaviour, timeout, elapsed, child, signals, expired >>

\* the stripped command is empty: "Missing command parameter"
MissingCommand ==
    /\ shell_pc = "execute"
    /\ strip(command) = << >>
    /\ shell_response' = ToolResponse(FALSE, "missing", NoData, "Missing command parameter")
    /\ shell_pc' = "returned"
    /\ UNCHANGED << command_safe, work_dir, shellExecuteFrame >>

\* execute with the working directory resolved before the safety check
CheckCommand_late(working_directory, exists) ==
    /\ shell_pc = "execute"
    /\ strip(command) # << >>
    /\ command_safe' = [called |-> TRUE, value |-> is_command_safe(strip(command), platform)]
    /\ work_dir' = IF working_directory = "." THEN "session path" ELSE "resolved path"
    /\ IF ~command_safe'.value
       THEN /\ shell_response' =
                   ToolResponse(FALSE, "blocked", NoData, "Command blocked by security policy")
            /\ shell_pc' = "returned"
       ELSE IF ~exists
       THEN /\ shell_response' =
                   ToolResponse(FALSE, "no directory", NoData,
                                "Working directory does not exist")
            /\ shell_pc' = "returned"
       ELSE /\ shell_response' = shell_response
            /\ shell_pc' = "spawn"
    /\ UNCHANGED shellExecuteFrame

\* the safety check on the stripped command; a rejected command is answered
\* with "Command blocked by security policy"; for a safe one the working
\* directory is resolved (the session path for '.') and, if it exists,
\* _execute_command is entered
CheckCommand(working_directory, exists) ==
    /\ shell_pc = "execute"
    /\ strip(command) # << >>
    /\ command_safe' = [called |-> TRUE, value |-> is_command_safe(strip(command), platform)]
    /\ IF ~command_safe'.value
       THEN /\ shell_response' =
                   ToolResponse(FALSE, "blocked", NoData, "Command blocked by security policy")
            /\ shell_pc' = "returned"
            /\ work_dir' = work_dir
       ELSE /\ work_dir' = IF working_directory = "." THEN "session path" ELSE "resolved path"
            /\ IF ~exists
               THEN /\ shell_response' =
                           ToolResponse(FALSE, "no directory", NoData,
                                        "Working directory does not exist")
                    /\ shell_pc' = "returned"
               ELSE /\ shell_response' = shell_response
                    /\ shell_pc' = "spawn"
    /\ UNCHANGED shellExecuteFrame

ShellExecuteNext ==
    \/ MissingCommand
    \/ \E working_directory \in {".", "sub"}, exists \in BOOLEAN :
           CheckCommand(working_directory, exists)
    \/ ShellRunNext

ShellExecuteSpec == ShellExecuteInit /\ [][ShellExecuteNext]_vars

\* --------------------------------------------- Browser Tool (browser_tool.py)
supported_actions ==
    {"navigate", "click", "fill", "submit", "extract", "screenshot", "back", "forward",
     "refresh", "get_title", "get_url", "find_element"}

\* the parameters of a call: the action (None when missing, "hover" for one that
\* is not supported), the url and the selector (None when missing)
BrowserKwargs ==
    [action : supported_actions \cup {None, "hover"},
     url : {"https://example.com"} \cup {None},
     selector : {"#go"} \cup {None}]

\* the driver after _initialize_browser
initialize_browser(launch) == IF launch = "launched" THEN "webdriver" ELSE None

\* f"simulated page - {url}", the prefix in English
SimulationTitle(url) == << "simulated page - ", url >>
RealTitle(url) == << "title of ", url >>

BrowserFailure(error) == ToolResponse(FALSE, "failed", NoBrowserData, error)
BrowserSuccess(data) == ToolResponse(TRUE, "done", data, NoError)

\* the parameter an action cannot do without, None if there is none
RequiredParameter(action) ==
    IF action = "navigate" THEN "url"
    ELSE IF action \in {"click", "fill", "find_element"} THEN "selector"
    ELSE None

HasRequiredParameters(kw) ==
    /\ RequiredParameter(kw.action) = "url" => kw.url # None
    /\ RequiredParameter(kw.action) = "selector" => kw.selector # None

\* the simulation branch of the twelve action methods: the response, and the
\* url and title the instance keeps
Simulated(kw, url, title) ==
    IF kw.action = "navigate"
    THEN [response |-> BrowserSuccess(BrowserData("simulation", SimulationTitle(kw.url),
                                                  kw.url)),
          current_url |-> kw.url, page_title |-> SimulationTitle(kw.url)]
    ELSE IF kw.action = "get_title"
    THEN [response |->
              BrowserSuccess(BrowserData(Absent,
                  IF title # None THEN title ELSE << "simulated page title" >>, Absent)),
          current_url |-> url, page_title |-> title]
    ELSE IF kw.action = "get_url"
    THEN [response |->
              BrowserSuccess(BrowserData(Absent, Absent,
                  IF url # None THEN url ELSE "https://example.com")),
          current_url |-> url, page_title |-> title]
    ELSE [response |-> BrowserSuccess(BrowserData("simulation", Absent, Absent)),
          current_url |-> url, page_title |-> title]

\* the real branch of the action methods; what the page does is the
\* environment's choice. _extract_content without a selector reads By.TAG_NAME,
\* and By is a local name of other methods only: NameError, caught and returned;
\* with a selector, lookups that raise leave _find_element_by_selector with None
Real(kw, url, title, outcome) ==
    IF kw.action = "extract" /\ kw.selector = None
    THEN [response |-> BrowserFailure("name 'By' is not defined"),
          current_url |-> url, page_title |-> title]
    ELSE IF kw.action = "extract" /\ outcome = "raise"
    THEN [response |-> BrowserFailure("Element not found"),
          current_url |-> url, page_title |-> title]
    ELSE IF outcome = "raise"
    THEN [response |-> BrowserFailure("WebDriverException"),
          current_url |-> url, page_title |-> title]
    ELSE IF kw.action = "navigate"
    THEN [response |-> BrowserSuccess(BrowserData("real_browser", RealTitle(kw.url),
                                                  kw.url)),
          current_url |-> kw.url, page_title |-> RealTitle(kw.url)]
    ELSE IF kw.action = "get_title"
    THEN [response |-> BrowserSuccess(BrowserData(Absent, RealTitle(url), Absent)),
          current_url |-> url, page_title |-> title]
    ELSE IF kw.action = "get_url"
    THEN [response |-> BrowserSuccess(BrowserData(Absent, Absent, url)),
          current_url |-> url, page_title |-> title]
    ELSE IF kw.action \in {"extract", "screenshot"}
    THEN [response |-> BrowserSuccess(BrowserData("real_browser", Absent, Absent)),
          current_url |-> url, page_title |-> title]
    ELSE [response |-> BrowserSuccess(BrowserData(Absent, Absent, Absent)),
          current_url |-> url, page_title |-> title]

\* BrowserTool.execute after the driver was seen to: the parameter checks and the
\* action method
Dispatch(kw, drv, url, title, outcome) ==
    IF ~HasRequiredParameters(kw)
    THEN [response |-> BrowserFailure("Missing parameter"),
          current_url |-> url, page_title |-> title]
    ELSE IF drv = None THEN Simulated(kw, url, title)
    ELSE Real(kw, url, title, outcome)

BrowserInit ==
    /\ CoreIdle
    /\ ShellIdle
    /\ BrowserIdle
    /\ ConfigIdle
    /\ StartupIdle
    /\ UtilityIdle

\* BrowserTool.execute with an action that is missing or not supported
RejectAction(kw) ==
    /\ pc = "idle"
    /\ browser_calls < MaxBrowserCalls
    /\ kw.action \notin supported_actions
    /\ browser_calls' = browser_calls + 1
    /\ browser_call' = [action |-> kw.action, url |-> kw.url, selector |-> kw.selector,
                        driver |-> driver]
    /\ browser_response' =
           BrowserFailure(IF kw.action = None THEN "Missing action parameter"
                          ELSE "Unsupported action")
    /\ UNCHANGED << driver, current_url, page_title, simulation_entered, notBrowser >>

\* BrowserTool.execute with a supported action: the driver is initialized if
\* there is none, then the action is carried out
Execute(kw, launch, outcome) ==
    /\ pc = "idle"
    /\ browser_calls < MaxBrowserCalls
    /\ kw.action \in supported_actions
    /\ LET drv == IF driver = None THEN initialize_browser(launch) ELSE driver
           r == Dispatch(kw, drv, current_url, page_title, outcome)
       IN  /\ driver' = drv
           /\ simulation_entered' = (simulation_entered \/ drv = None)
           /\ browser_call' = [action |-> kw.action, url |-> kw.url,
                               selector |-> kw.selector, driver |-> drv]
           /\ browser_response' = r.response
           /\ current_url' = r.current_url
           /\ page_title' = r.page_title
    /\ browser_calls' = browser_calls + 1
    /\ UNCHANGED notBrowser

\* BrowserTool.close
Close ==
    /\ pc = "idle"
    /\ driver # None
    /\ driver' = None
    /\ UNCHANGED << current_url, page_title, simulation_entered, browser_calls,
                    browser_call, browser_response, notBrowser >>

BrowserNext ==
    \/ \E kw \in BrowserKwargs : RejectAction(kw)
    \* what an attempt to launch the real driver ends in, and what an action on
    \* the real driver ends in
    \/ \E kw \in BrowserKwargs,
          launch \in {"ImportError", "WebDriverException", "launched"},
          outcome \in {"ok", "raise"} :
           Execute(kw, launch, outcome)
    \/ Close

BrowserSpec == BrowserInit /\ [][BrowserNext]_vars

\* =================================================================== claims
Last(s) == s[Len(s)]

\* the ids of a list of tool calls, results or summary blocks, in order
CallIds(s) == [i \in 1..Len(s) |-> s[i].id]
ResultIds(s) == [i \in 1..Len(s) |-> s[i].tool_call_id]

\* C1: at the end of every turn the retained history holds at most
\* 2 x max_conversation_history entries, and they are the most recent of the
\* entries appended, in their original order.
C1_HistoryWindow ==
    pc = "prompt" =>
        /\ Len(conversation_history) <= 2 * max_conversation_history
        /\ conversation_history = LastK(appended, 2 * max_conversation_history)

\* C2: the first request carries one system message, the last
\* min(max_conversation_history, len(history)) entries of the history (role and
\* content only, in order), then one user message with the new input, which
\* appears exactly once.
C2_FirstRequestContext ==
    Len(llm_calls) >= 1 =>
        LET sent == llm_calls[1].messages
            k == Min(max_conversation_history, Len(conversation_history))
        IN  /\ Len(sent) = k + 2
            /\ sent = << Msg("system", SystemPrompt) >>
                      \o RoleAndContent(LastK(conversation_history, k))
                      \o << Msg("user", message) >>
            /\ Cardinality({i \in 1..Len(sent) : sent[i].content = message}) = 1

C4_ToolCallsInOrder ==
    Len(llm_calls) = 2 =>
        /\ ResultIds(dispatched) = CallIds(response.tool_calls)
        /\ ResultIds(tool_result.tool_results) = CallIds(response.tool_calls)
        /\ ResultIds(tool_result.response) = CallIds(response.tool_calls)

\* C5: a turn makes at most two model calls; the second is made only after a
\* response with tool calls, carries no tool schemas, and its context is the
\* first one plus the interim content and the summary of the tool results; its
\* text is returned as the response together with the per-tool results, and the
\* turn is over with it.
C5_SynthesisCall ==
    /\ Len(llm_calls) <= 2
    /\ Len(llm_calls) = 2 =>
           /\ response.tool_calls # << >>
           /\ llm_calls[2].tools = {}
           /\ llm_calls[2].messages =
                  llm_calls[1].messages
                  \o << Msg("assistant", response.content),
                        [role |-> "user", content |-> ToolResultPrefix,
                         summary |-> format_tool_results(results)] >>
    /\ Len(llm_calls) = 2 => pc = "return"
    /\ (pc = "return" /\ final_response.content \in Texts) =>
           /\ result.success = TRUE
           /\ result.response = final_response.content
           /\ result.has_tool_results
           /\ result.tool_results = results

Malformed(tc) == json_loads(tc.arguments).kind # "mapping"

\* C7: in a turn whose model calls both answer, a tool call with malformed
\* arguments is dispatched with an empty parameter set, every other tool call
\* of the turn is dispatched too, and the turn returns success with one
\* tool_results entry per call.
C7_MalformedArguments ==
    (/\ pc = "return"
     /\ final_response.content \in Texts
     /\ \E i \in 1..Len(response.tool_calls) : Malformed(response.tool_calls[i])) =>
        /\ result.success = TRUE
        /\ ResultIds(dispatched) = CallIds(response.tool_calls)
        /\ \A i \in 1..Len(dispatched) :
               Malformed(response.tool_calls[i]) => dispatched[i].kwargs = {}
        /\ ResultIds(result.tool_results) = CallIds(response.tool_calls)

\* C8: over the messages of a session initialize_tools runs (to its end) once,
\* on the first message, whatever the flags.
C8_InitializeOnce ==
    /\ init_done <= 1
    /\ pc \in {"llm1", "tools", "llm2"} => init_done = 1

\* C9: once initialize_tools has returned, the registry holds file_tool iff
\* file_operations, shell_tool iff shell_commands, tavily_tool iff web_search
\* and browser_tool iff browser_automation; it never holds web_tool.
C9_RegistryMatchesFlags ==
    /\ "web_tool" \notin tools
    /\ init_done >= 1 =>
           /\ "file_tool" \in tools <=> flags["file_operations"]
           /\ "shell_tool" \in tools <=> flags["shell_commands"]
           /\ "tavily_tool" \in tools <=> flags["web_search"]
           /\ "browser_tool" \in tools <=> flags["browser_automation"]
    /\ init_done = 0 => tools = {}

\* the tools are initialized with web search on and file operations off
C9_Witness ==
    /\ init_done >= 1
    /\ flags["web_search"]
    /\ ~flags["file_operations"]
    /\ tools = {"tavily_tool"}

\* C10: a call of execute_tool with a name the registry does not hold returns
\* the failure ToolResponse with error 'Tool not found' and enters no tool.
C10_UnknownToolNotFound ==
    [][(/\ Len(dispatched') = Len(dispatched) + 1
        /\ Last(dispatched').name \notin tools) =>
           /\ last_response'.success = FALSE
           /\ last_response'.error = "Tool not found"
           /\ entered' = entered]_vars

\* file_tool was registered and disabled, then taken out of the registry, and a
\* call for it was answered 'Tool not found'
C10_Witness ==
    /\ dispatched # << >>
    /\ Last(dispatched).name = "file_tool"
    /\ "file_tool" \notin tools
    /\ ~enabled["file_tool"]
    /\ entered = << >>
    /\ last_response.error = "Tool not found"

\* ====================================================== config/settings.py
\* The Settings instances: fields of the declared types, strings as
\* load_from_env leaves them in numeric fields, and None.
SettingsInstances ==
    { [DefaultSettings EXCEPT
          !.agent.api_key = api_key, !.agent.base_url = base_url,
          !.agent.max_tokens = max_tokens, !.agent.temperature = temperature,
          !.workspace.max_size_mb = max_size_mb, !.browser.timeout_seconds = timeout_seconds,
          !.browser.headless = headless, !.search.max_results = max_results,
          !.security.allowed_domains = allowed_domains] :
        api_key \in {StrValue(""), StrValue("sk-key"), NoneValue},
        base_url \in {StrValue(""), StrValue("https://api")},
        max_tokens \in
            {IntValue(-1), IntValue(0), IntValue(4000), StrValue("4000"), NoneValue},
        temperature \in
            {FloatValue(-1), FloatValue(0), FloatValue(7), FloatValue(20), FloatValue(21),
             StrValue("0.7")},
        max_size_mb \in {IntValue(0), IntValue(100)},
        timeout_seconds \in {IntValue(0), IntValue(30), NoneValue},
        headless \in {BoolValue(TRUE), StrValue("true")},
        max_results \in {IntValue(0), IntValue(10), StrValue("10")},
        allowed_domains \in {ListValue(<< >>), ListValue(<< StrValue("a.com") >>)} }

\* ---------------------------------------------------------------- validate
\* bool(v)
Truth(v) ==
    CASE v.type = "str" -> v.text # ""
      [] v.type = "NoneType" -> FALSE
      [] v.type \in {"list", "dict"} -> v.items # << >>
      [] OTHER -> v.num # 0

\* a <= b of two values of one scale: a TypeError unless both are numbers
LessEqual(a, b) ==
    IF a.type \in {"int", "float", "bool"} /\ b.type \in {"int", "float", "bool"}
    THEN [raised |-> FALSE, value |-> a.num <= b.num]
    ELSE [raised |-> TRUE, value |-> FALSE]

\* 0 <= t <= 2 (a float in tenths), the second comparison made only when the
\* first one holds
Chained(t) ==
    LET low == LessEqual(FloatValue(0), t)
    IN  IF low.raised \/ ~low.value THEN low ELSE LessEqual(t, FloatValue(20))

\* "try: if <test>: return False; except Exception: return False"
Rejects(test) == test.raised \/ test.value
RejectsUnless(test) == test.raised \/ ~test.value

\* validate without its last check
validate_without_search(s) ==
    IF ~Truth(s.agent.api_key) THEN FALSE
    ELSE IF ~Truth(s.agent.base_url) THEN FALSE
    ELSE IF Rejects(LessEqual(s.agent.max_tokens, IntValue(0))) THEN FALSE
    ELSE IF RejectsUnless(Chained(s.agent.temperature)) THEN FALSE
    ELSE IF Rejects(LessEqual(s.workspace.max_size_mb, IntValue(0))) THEN FALSE
    ELSE IF Rejects(LessEqual(s.browser.timeout_seconds, IntValue(0))) THEN FALSE
    ELSE TRUE

validate(s) ==
    IF ~Truth(s.agent.api_key) THEN FALSE
    ELSE IF ~Truth(s.agent.base_url) THEN FALSE
    ELSE IF Rejects(LessEqual(s.agent.max_tokens, IntValue(0))) THEN FALSE
    ELSE IF RejectsUnless(Chained(s.agent.temperature)) THEN FALSE
    ELSE IF Rejects(LessEqual(s.workspace.max_size_mb, IntValue(0))) THEN FALSE
    ELSE IF Rejects(LessEqual(s.browser.timeout_seconds, IntValue(0))) THEN FALSE
    ELSE IF Rejects(LessEqual(s.search.max_results, IntValue(0))) THEN FALSE
    ELSE TRUE

\* ------------------------------------------------- yaml.dump, yaml.safe_load
\* the decimal text of the integers and of the floats (in tenths) of the model
TextOfInt ==
    (-1 :> "-1") @@ (0 :> "0") @@ (5 :> "5") @@ (10 :> "10") @@ (15 :> "15") @@ (30 :> "30")
    @@ (100 :> "100") @@ (1080 :> "1080") @@ (1920 :> "1920") @@ (4000 :> "4000")
TextOfFloat ==
    (-1 :> "-0.1") @@ (0 :> "0.0") @@ (7 :> "0.7") @@ (20 :> "2.0") @@ (21 :> "2.1")
\* a node of a YAML document
Plain(text) == [style |-> "plain", text |-> text, items |-> << >>]
Collection(style, items) == [style |-> style, text |-> "", items |-> items]

\* the implicit resolvers: the value a plain scalar stands for
resolve(text) ==
    LET IntOfText == {n \in DOMAIN TextOfInt : TextOfInt[n] = text}
        FloatOfText == {n \in DOMAIN TextOfFloat : TextOfFloat[n] = text}
    IN  IF text \in {"", "~", "null", "Null", "NULL"} THEN NoneValue
        ELSE IF text \in {"true", "True", "TRUE", "yes", "Yes", "YES", "on", "On", "ON"}
        THEN BoolValue(TRUE)
        ELSE IF text \in {"false", "False", "FALSE", "no", "No", "NO", "off", "Off", "OFF"}
        THEN BoolValue(FALSE)
        ELSE IF IntOfText # {} THEN IntValue(CHOOSE n \in IntOfText : TRUE)
        ELSE IF FloatOfText # {} THEN FloatValue(CHOOSE n \in FloatOfText : TRUE)
        ELSE StrValue(text)

\* a representer that writes every string plain
represent_scalar_plain(v) ==
    CASE v.type = "NoneType" -> Plain("null")
      [] v.type = "bool" -> Plain(IF v.num = 1 THEN "true" ELSE "false")
      [] v.type = "int" -> Plain(TextOfInt[v.num])
      [] v.type = "float" -> Plain(TextOfFloat[v.num])
      [] OTHER -> Plain(v.text)

\* a string is written plain only when a plain scalar of its text is a string
represent_scalar(v) ==
    CASE v.type = "NoneType" -> Plain("null")
      [] v.type = "bool" -> Plain(IF v.num = 1 THEN "true" ELSE "false")
      [] v.type = "int" -> Plain(TextOfInt[v.num])
      [] v.type = "float" -> Plain(TextOfFloat[v.num])
      [] OTHER ->
            IF resolve(v.text).type = "str"
            THEN Plain(v.text)
            ELSE [style |-> "single-quoted", text |-> v.text, items |-> << >>]

represent(v) ==
    CASE v.type = "list" ->
            Collection("sequence", [i \in DOMAIN v.items |-> represent_scalar(v.items[i])])
      [] v.type = "dict" ->
            Collection("mapping", [i \in DOMAIN v.items |-> represent_scalar(v.items[i])])
      [] OTHER -> represent_scalar(v)

construct_scalar(node) ==
    IF node.style = "plain" THEN resolve(node.text) ELSE StrValue(node.text)

construct(node) ==
    CASE node.style = "sequence" ->
            ListValue([i \in DOMAIN node.items |-> construct_scalar(node.items[i])])
      [] node.style = "mapping" ->
            DictValue([i \in DOMAIN node.items |-> construct_scalar(node.items[i])])
      [] OTHER -> construct_scalar(node)

safe_load(document) ==
    [section \in DOMAIN document |->
        [key \in DOMAIN document[section] |-> construct(document[section][key])]]

\* ------------------------------------------- save_to_file, load_from_file
\* the document save_to_file writes for s: yaml.dump of config_data
save_to_file(s) ==
    LET config_data ==
        [agent |->
            [model |-> s.agent.model, base_url |-> s.agent.base_url, api_key |-> s.agent.api_key,
             max_tokens |-> s.agent.max_tokens, temperature |-> s.agent.temperature,
             max_conversation_history |-> s.agent.max_conversation_history],
         workspace |->
            [path |-> s.workspace.path, max_size_mb |-> s.workspace.max_size_mb,
             auto_cleanup |-> s.workspace.auto_cleanup],
         browser |->
            [headless |-> s.browser.headless, timeout_seconds |-> s.browser.timeout_seconds,
             window_size |-> s.browser.window_size],
         search |->
            [engine |-> s.search.engine, max_results |-> s.search.max_results,
             timeout_seconds |-> s.search.timeout_seconds, api_key |-> s.search.api_key],
         tools |->
            [file_operations |-> s.tools.file_operations,
             shell_commands |-> s.tools.shell_commands, web_search |-> s.tools.web_search,
             browser_automation |-> s.tools.browser_automation],
         logging |->
            [level |-> s.logging.level, file |-> s.logging.file,
             max_size_mb |-> s.logging.max_size_mb, backup_count |-> s.logging.backup_count],
         security |->
            [allow_network |-> s.security.allow_network,
             allowed_domains |-> s.security.allowed_domains,
             block_shell_commands |-> s.security.block_shell_commands]]
    IN  [section \in DOMAIN config_data |->
            [key \in DOMAIN config_data[section] |->
                represent(config_data[section][key])]]

\* what load_from_file returns for the documents at its path
load_from_file(file) ==
    IF file = Missing
    THEN DefaultSettings
    ELSE LET data == safe_load(CHOOSE document \in file : TRUE)
         IN  [agent |-> data.agent, workspace |-> data.workspace, browser |-> data.browser,
              search |-> data.search, tools |-> data.tools, logging |-> data.logging,
              security |-> data.security]

ConfigInit ==
    /\ CoreIdle
    /\ ShellIdle
    /\ BrowserIdle
    /\ settings \in SettingsInstances
    /\ valid = NotValidated
    /\ config_file = Missing
    /\ save_message = "none"
    /\ loaded = NotLoaded
    /\ StartupIdle
    /\ UtilityIdle

\* settings.validate()
Validate ==
    /\ valid' = [called |-> TRUE, value |-> validate(settings)]
    /\ UNCHANGED << settings, config_file, save_message, loaded, notConfig >>

\* settings.save_to_file(p), the file written
SaveToFile ==
    /\ config_file' = {save_to_file(settings)}
    /\ save_message' = "saved"
    /\ UNCHANGED << settings, valid, loaded, notConfig >>

\* settings.save_to_file(p), open or write raising: the error is printed
SaveFails ==
    /\ save_message' = "failed"
    /\ UNCHANGED << settings, valid, config_file, loaded, notConfig >>

\* Settings.load_from_file(p)
LoadFromFile ==
    /\ loaded' = [called |-> TRUE, value |-> load_from_file(config_file)]
    /\ UNCHANGED << settings, valid, config_file, save_message, notConfig >>

ConfigNext ==
    \/ Validate
    \/ SaveToFile
    \/ SaveFails
    \/ LoadFromFile

ConfigSpec == ConfigInit /\ [][ConfigNext]_vars


\* ================================================================= main.py
\* Settings.load_with_priority(config_file)
load_with_priority(file) ==
    IF file # Missing THEN load_from_file(file) ELSE DefaultSettings

StartupInit ==
    /\ CoreIdle
    /\ ShellIdle
    /\ BrowserIdle
    /\ settings = DefaultSettings
    /\ valid = NotValidated
    /\ config_file \in
          {Missing} \cup
          {{save_to_file(s)} :
              s \in {i \in SettingsInstances :
                        /\ i.browser.headless = DefaultSettings.browser.headless
                        /\ i.security = DefaultSettings.security}}
    /\ save_message = "none"
    /\ loaded = NotLoaded
    /\ UtilityIdle
    /\ options \in [version : BOOLEAN, debug : BOOLEAN]
    /\ startup_pc = "main"
    /\ steps = << >>
    /\ constructed = {}
    /\ logger = [handlers |-> FALSE, level |-> "NOTSET"]
    /\ exit_status = "running"

startupFrame ==
    << coreVars, shellVars, browserVars, utilityVars, config_file, save_message, loaded,
       options >>

\* get_logger(name, level) for the logger "suna-lite": a logger that has
\* handlers is returned as it is
get_logger(l, level) ==
    IF l.handlers THEN l ELSE [handlers |-> TRUE, level |-> level]

\* main(): --version prints the version and returns
PrintVersion ==
    /\ startup_pc = "main"
    /\ options.version
    /\ startup_pc' = "exited"
    /\ exit_status' = "0"
    /\ UNCHANGED << settings, valid, steps, constructed, logger, startupFrame >>

\* initialize(): self.settings = Settings.load_with_priority(config_file)
LoadSettings ==
    /\ startup_pc = "main"
    /\ ~options.version
    /\ settings' = load_with_priority(config_file)
    /\ steps' = Append(steps, "load")
    /\ constructed' = constructed \cup {"settings"}
    /\ startup_pc' = "validate"
    /\ UNCHANGED << valid, exit_status, logger, startupFrame >>

\* initialize(): the result of validate() is not looked at
ValidateSettings_ignored ==
    /\ startup_pc = "validate"
    /\ valid' = [called |-> TRUE, value |-> validate(settings)]
    /\ steps' = Append(steps, "validate")
    /\ startup_pc' = "logging"
    /\ UNCHANGED << settings, constructed, exit_status, logger, startupFrame >>

\* initialize(): if not self.settings.validate(): return False
ValidateSettings ==
    /\ startup_pc = "validate"
    /\ valid' = [called |-> TRUE, value |-> validate(settings)]
    /\ steps' = Append(steps, "validate")
    /\ startup_pc' = IF validate(settings) THEN "logging" ELSE "initialize_failed"
    /\ UNCHANGED << settings, constructed, exit_status, logger, startupFrame >>

\* initialize(): setup_logging(...), self.logger = get_logger("suna-lite")
SetupLogging ==
    /\ startup_pc = "logging"
    /\ steps' = Append(steps, "logging")
    /\ constructed' = constructed \cup {"logger"}
    /\ logger' = get_logger(logger, settings.logging.level.text)
    /\ startup_pc' = "workspace"
    /\ UNCHANGED << settings, valid, exit_status, startupFrame >>

\* initialize(): WorkspaceManager(self.settings.workspace) and its initialize()
InitializeWorkspace ==
    /\ startup_pc = "workspace"
    /\ steps' = Append(steps, "workspace")
    /\ constructed' = constructed \cup {"workspace_manager"}
    /\ startup_pc' = "agent"
    /\ UNCHANGED << settings, valid, exit_status, logger, startupFrame >>

\* initialize(): self.agent = SunaAgent(self.settings, self.workspace_manager)
ConstructAgent ==
    /\ startup_pc = "agent"
    /\ steps' = Append(steps, "agent")
    /\ constructed' = constructed \cup {"agent"}
    /\ startup_pc' = "initialized"
    /\ UNCHANGED << settings, valid, exit_status, logger, startupFrame >>

\* initialize(): a step raises; "except Exception" prints it and returns False.
\* The workspace manager is assigned before its initialize() is called.
StepRaises ==
    /\ startup_pc \in {"logging", "workspace", "agent"}
    /\ \/ UNCHANGED constructed
       \/ /\ startup_pc = "workspace"
          /\ constructed' = constructed \cup {"workspace_manager"}
    /\ startup_pc' = "initialize_failed"
    /\ UNCHANGED << settings, valid, steps, exit_status, logger, startupFrame >>

\* main(): if not cli.initialize(config): sys.exit(1)
ExitAfterFailure ==
    /\ startup_pc = "initialize_failed"
    /\ startup_pc' = "exited"
    /\ exit_status' = "1"
    /\ UNCHANGED << settings, valid, steps, constructed, logger, startupFrame >>

\* main(): with --debug the level becomes DEBUG and logging is set up again
\* (outside any try: an exception of it ends the process with status 1), then
\* asyncio.run(cli.interactive_mode())
Run ==
    /\ startup_pc = "initialized"
    /\ \/ /\ settings' = IF options.debug
                         THEN [settings EXCEPT !.logging.level = StrValue("DEBUG")]
                         ELSE settings
          /\ steps' = Append(steps, "repl")
          /\ startup_pc' = "repl"
          /\ UNCHANGED exit_status
       \/ /\ options.debug
          /\ settings' = [settings EXCEPT !.logging.level = StrValue("DEBUG")]
          /\ startup_pc' = "exited"
          /\ exit_status' = "1"
          /\ UNCHANGED steps
    /\ logger' = IF options.debug THEN get_logger(logger, "DEBUG") ELSE logger
    /\ UNCHANGED << valid, constructed, startupFrame >>

\* main(): interactive_mode returns or is interrupted (status 0), or raises
ReplEnds ==
    /\ startup_pc = "repl"
    /\ \E outcome \in {"returns", "KeyboardInterrupt", "Exception"} :
          exit_status' = IF outcome = "Exception" THEN "1" ELSE "0"
    /\ startup_pc' = "exited"
    /\ UNCHANGED << settings, valid, steps, constructed, logger, startupFrame >>

StartupNext ==
    \/ PrintVersion
    \/ LoadSettings
    \/ ValidateSettings
    \/ SetupLogging
    \/ InitializeWorkspace
    \/ ConstructAgent
    \/ StepRaises
    \/ ExitAfterFailure
    \/ Run
    \/ ReplEnds

\* a process that can take a step of main() takes one
StartupSpec == StartupInit /\ [][StartupNext]_vars /\ WF_vars(StartupNext)


\* ======================================================== utils/helpers.py
\* A path is the sequence of its components below the root, a component and a
\* file name the sequence of its characters.

\* is_safe_path: both paths resolved (".." takes the parent, the root is its
\* own parent), then the text of the one tested for starting with the text of
\* the other
is_safe_path(path, base_path) ==
    LET RECURSIVE resolve_path(_, _)
        resolve_path(p, done) ==
            IF p = << >> THEN done
            ELSE IF Head(p) = << ".", "." >>
            THEN resolve_path(Tail(p), SubSeq(done, 1, Len(done) - 1))
            ELSE resolve_path(Tail(p), Append(done, Head(p)))
        str(p) ==
            IF p = << >> THEN << "/" >>
            ELSE Flatten([i \in 1..Len(p) |-> << "/" >> \o p[i]])
        startswith(text, prefix) ==
            Len(prefix) <= Len(text) /\ SubSeq(text, 1, Len(prefix)) = prefix
    IN  startswith(str(resolve_path(path, << >>)), str(resolve_path(base_path, << >>)))

\* the length clean_filename limits a name to
MaxFilenameLength == 255

\* clean_filename: unsafe characters and runs of whitespace become "_", dots
\* and underscores are stripped from both ends, and a name longer than 255 is
\* put together from name[:255-len(ext)] and ext
clean_filename(filename) ==
    LET \* the two re.sub calls: each character with what it becomes, and whether
        \* it goes on a run of whitespace
        marked ==
            [i \in 1..Len(filename) |->
                [char |-> IF filename[i] \in {"<", ">", ":", "\"", "/", "\\", "|", "?", "*", " "}
                          THEN "_" ELSE filename[i],
                 in_run |-> filename[i] = " " /\ i > 1 /\ filename[i - 1] = " "]]
        kept == SelectSeq(marked, LAMBDA m : ~m.in_run)
        substituted == [i \in 1..Len(kept) |-> kept[i].char]
        \* strip('._')
        inner == {i \in 1..Len(substituted) : substituted[i] \notin {".", "_"}}
        stripped ==
            IF inner = {} THEN << >>
            ELSE SubSeq(substituted, CHOOSE i \in inner : \A j \in inner : i <= j,
                        CHOOSE i \in inner : \A j \in inner : j <= i)
        \* os.path.splitext: the extension starts at the last dot that has a
        \* character other than a dot before it
        dots == {i \in 1..Len(stripped) :
                    stripped[i] = "." /\ \E j \in 1..(i - 1) : stripped[j] # "."}
        split == IF dots = {} THEN Len(stripped) + 1
                 ELSE CHOOSE i \in dots : \A j \in dots : j <= i
        name == SubSeq(stripped, 1, split - 1)
        ext == SubSeq(stripped, split, Len(stripped))
        \* name[:k] for a k that may be negative
        k == MaxFilenameLength - Len(ext)
        cut == IF k >= 0 THEN Min(k, Len(name))
               ELSE IF Len(name) + k > 0 THEN Len(name) + k ELSE 0
    IN  IF Len(stripped) > MaxFilenameLength THEN SubSeq(name, 1, cut) \o ext ELSE stripped

\* c repeated n times
Repeat(c, n) == [i \in 1..n |-> c]

\* the calls of the helpers: paths of up to MaxPathDepth components with a base
\* of at most one component, and file names with stems and extensions of
\* lengths around the limit, with unsafe characters and with whitespace
HelperCalls ==
    LET PathNames == {<< "w", "s" >>, << "w", "s", "x" >>, << "a" >>, << ".", "." >>}
        Paths == UNION {[1..n -> PathNames] : n \in 0..MaxPathDepth}
        Filenames ==
            {Repeat("a", n) \o Repeat(".", d) \o Repeat("b", m) :
                n \in {1, 254, 255, 256}, d \in {0, 1}, m \in {0, 3, 254, 255, 300}}
            \cup {<< "a", " ", " ", "b" >>, << "/", "a", ".", "t", "x", "t" >>,
                  << ".", "a", "." >>, << "d", "/", "a", " ", "b", ".", "t" >>, << "_", "." >>}
    IN  {[NoHelperCall EXCEPT !.fn = "is_safe_path", !.path = path, !.base_path = base_path] :
            path \in Paths, base_path \in {p \in Paths : Len(p) <= 1}}
        \cup {[NoHelperCall EXCEPT !.fn = "clean_filename", !.filename = filename] :
                filename \in Filenames}

HelperInit ==
    /\ CoreIdle
    /\ ShellIdle
    /\ BrowserIdle
    /\ ConfigIdle
    /\ StartupIdle
    /\ FileIdle
    /\ ReplIdle
    /\ work_dir = "unresolved"
    /\ helper_call \in HelperCalls
    /\ helper_result = NoHelperResult

IsSafePath ==
    /\ helper_call.fn = "is_safe_path"
    /\ ~helper_result.done
    /\ helper_result' =
          [NoHelperResult EXCEPT !.done = TRUE,
                                 !.safe = is_safe_path(helper_call.path, helper_call.base_path)]
    /\ UNCHANGED << helper_call, fileVars, replVars, work_dir, coreVars, shellVars,
                    browserVars, configVars, startupVars >>

CleanFilename ==
    /\ helper_call.fn = "clean_filename"
    /\ ~helper_result.done
    /\ helper_result' =
          [NoHelperResult EXCEPT !.done = TRUE,
                                 !.filename = clean_filename(helper_call.filename)]
    /\ UNCHANGED << helper_call, fileVars, replVars, work_dir, coreVars, shellVars,
                    browserVars, configVars, startupVars >>

HelperNext ==
    \/ IsSafePath
    \/ CleanFilename

HelperSpec == HelperInit /\ [][HelperNext]_vars


\* ========================================================== file_tool.py
\* A text is a sequence of runs, a run being a character and the number of
\* times it is repeated; a path is the sequence of its characters.
\* The Workspace Manager keeps files by path: write_file stores the content
\* under the path, read_file returns it, or None for a path without a file.
workspace_read_file(fs, path) == IF path \in DOMAIN fs THEN {fs[path]} ELSE {}
workspace_write_file(fs, path, content) ==
    [q \in DOMAIN fs \cup {path} |-> IF q = path THEN content ELSE fs[q]]

\* _read_file: more than PreviewThreshold characters are cut to PreviewLength
PreviewThreshold == 50000
PreviewLength == 5000

\* _read_file with the preview made from PreviewThreshold characters on
read_file_from_threshold(fs, path) ==
    LET RECURSIVE len(_)
        len(text) == IF text = << >> THEN 0 ELSE Head(text).count + len(Tail(text))
        RECURSIVE slice(_, _)
        slice(text, n) ==
            IF text = << >> \/ n = 0 THEN << >>
            ELSE IF Head(text).count <= n
            THEN << Head(text) >> \o slice(Tail(text), n - Head(text).count)
            ELSE << [char |-> Head(text).char, count |-> n] >>
        endswith(ext) ==
            Len(path) >= Len(ext) /\ SubSeq(path, Len(path) - Len(ext) + 1, Len(path)) = ext
        mime_type ==
            IF endswith(<< ".", "j", "s", "o", "n" >>) THEN "application/json"
            ELSE IF endswith(<< ".", "t", "x", "t" >>) THEN "text/plain"
            ELSE None
        found == workspace_read_file(fs, path)
        content == CHOOSE c \in found : TRUE
    IN  IF found = {}
        THEN [success |-> FALSE, error |-> "File not found or unreadable",
              data |-> FileData(None, << >>, -1, -1, << >>)]
        ELSE IF mime_type = "application/json"
        THEN [success |-> TRUE, error |-> NoError,
              data |-> FileData("binary", << >>, -1, -1, << >>)]
        ELSE IF len(content) >= PreviewThreshold
        THEN [success |-> TRUE, error |-> NoError,
              data |-> FileData("text",
                                slice(content, PreviewLength)
                                    \o << [char |-> "truncation note", count |-> 1] >>,
                                -1, len(content), << >>)]
        ELSE [success |-> TRUE, error |-> NoError,
              data |-> FileData("text", content, len(content), -1, << >>)]

\* _read_file: None from the workspace is a failure; a path whose guessed MIME
\* type starts with "application/" gets the data of a binary file; content
\* longer than PreviewThreshold gets content[:PreviewLength] and the note, with
\* full_length; any other content is returned whole, with length
read_file(fs, path) ==
    LET RECURSIVE len(_)
        len(text) == IF text = << >> THEN 0 ELSE Head(text).count + len(Tail(text))
        RECURSIVE slice(_, _)
        slice(text, n) ==
            IF text = << >> \/ n = 0 THEN << >>
            ELSE IF Head(text).count <= n
            THEN << Head(text) >> \o slice(Tail(text), n - Head(text).count)
            ELSE << [char |-> Head(text).char, count |-> n] >>
        endswith(ext) ==
            Len(path) >= Len(ext) /\ SubSeq(path, Len(path) - Len(ext) + 1, Len(path)) = ext
        mime_type ==
            IF endswith(<< ".", "j", "s", "o", "n" >>) THEN "application/json"
            ELSE IF endswith(<< ".", "t", "x", "t" >>) THEN "text/plain"
            ELSE None
        found == workspace_read_file(fs, path)
        content == CHOOSE c \in found : TRUE
    IN  IF found = {}
        THEN [success |-> FALSE, error |-> "File not found or unreadable",
              data |-> FileData(None, << >>, -1, -1, << >>)]
        ELSE IF mime_type = "application/json"
        THEN [success |-> TRUE, error |-> NoError,
              data |-> FileData("binary", << >>, -1, -1, << >>)]
        ELSE IF len(content) > PreviewThreshold
        THEN [success |-> TRUE, error |-> NoError,
              data |-> FileData("text",
                                slice(content, PreviewLength)
                                    \o << [char |-> "truncation note", count |-> 1] >>,
                                -1, len(content), << >>)]
        ELSE [success |-> TRUE, error |-> NoError,
              data |-> FileData("text", content, len(content), -1, << >>)]

\* the paths and the contents the File Tool is called with: contents of
\* 0, 4999, 5000, 5001, 49999, 50000 and 50001 characters
FileCalls ==
    LET paths == {<< "a", ".", "t", "x", "t" >>, << "d", "/", "a", ".", "t", "x", "t" >>,
                  << "a", " ", "b", ".", "t", "x", "t" >>, << "a", ".", "j", "s", "o", "n" >>,
                  << "n" >>}
        run(c, n) == [char |-> c, count |-> n]
        contents ==
            {<< >>, << run("a", 4999) >>, << run("a", 5000) >>,
             << run("a", 5000), run("b", 1) >>, << run("a", 5000), run("b", 44999) >>,
             << run("a", 5000), run("b", 45000) >>,
             << run("a", 5000), run("b", 45000), run("c", 1) >>}
    IN  [action : {"read"}, path : paths, content : {<< >>}]
        \cup [action : {"write"}, path : paths, content : contents]

FileInit ==
    /\ CoreIdle
    /\ ShellIdle
    /\ BrowserIdle
    /\ ConfigIdle
    /\ StartupIdle
    /\ HelperIdle
    /\ FileIdle
    /\ ReplIdle
    /\ work_dir = "unresolved"

fileFrame ==
    << helperVars, replVars, work_dir, coreVars, shellVars, browserVars, configVars, startupVars >>

\* execute(action='read', path=...)
ReadFile(call) ==
    /\ call.action = "read"
    /\ file_calls < MaxFileCalls
    /\ file_calls' = file_calls + 1
    /\ file_call' = call
    /\ file_response' = read_file(files, call.path)
    /\ UNCHANGED << files, fileFrame >>

\* execute(action='write', path=..., content=...): the path is cleaned, then
\* the workspace writes the file or reports that it could not
WriteFile(call, written) ==
    /\ call.action = "write"
    /\ file_calls < MaxFileCalls
    /\ file_calls' = file_calls + 1
    /\ file_call' = call
    /\ IF written
       THEN /\ files' = workspace_write_file(files, clean_filename(call.path), call.content)
            /\ file_response' =
                  LET RECURSIVE len(_)
                      len(text) ==
                          IF text = << >> THEN 0 ELSE Head(text).count + len(Tail(text))
                  IN  [success |-> TRUE, error |-> NoError,
                       data |-> FileData(None, << >>, len(call.content), -1,
                                         clean_filename(call.path))]
       ELSE /\ files' = files
            /\ file_response' =
                  [success |-> FALSE, error |-> "Failed to write file",
                   data |-> FileData(None, << >>, -1, -1, << >>)]
    /\ UNCHANGED fileFrame

FileNext ==
    \/ \E call \in FileCalls : ReadFile(call)
    \/ \E call \in FileCalls, written \in BOOLEAN : WriteFile(call, written)

FileSpec == FileInit /\ [][FileNext]_vars


\* C11: a call of execute_tool for a registered tool enters the tool's execute
\* body only if the tool is enabled at that moment; for a disabled tool it
\* returns the failure with error 'Tool disabled' and calls neither
\* validate_params nor execute.
C11_DisabledShortCircuit ==
    [][(/\ Len(dispatched') = Len(dispatched) + 1
        /\ Last(dispatched').name \in tools) =>
           IF enabled[Last(dispatched').name]
           THEN /\ validated' = Append(validated, Last(dispatched').name)
                /\ entered' = Append(entered, Last(dispatched').name)
                /\ last_response'.error # "Tool disabled"
           ELSE /\ last_response'.success = FALSE
                /\ last_response'.error = "Tool disabled"
                /\ validated' = validated
                /\ entered' = entered]_vars

\* file_tool was executed while enabled, then disabled, and the next call for it
\* was answered 'Tool disabled' without entering it again
C11_Witness ==
    /\ Len(dispatched) = 2
    /\ dispatched[1].name = "file_tool"
    /\ dispatched[2].name = "file_tool"
    /\ "file_tool" \in tools
    /\ ~enabled["file_tool"]
    /\ entered = << "file_tool" >>
    /\ validated = << "file_tool" >>
    /\ last_response.error = "Tool disabled"

\* the tool call carries a parameter set: a JSON object, or text that cannot be
\* decoded, which stands for the empty set
ParameterSet(tc) == ParseArguments(tc.arguments).kind = "mapping"

\* C12: when every tool call of the response carries a parameter set, the tool
\* calls all end in a ToolResponse, a failed one carrying the text of what went
\* wrong, and no exception of an invocation reaches _handle_tool_calls.
C12_ToolErrorsContained ==
    (/\ pc = "llm2"
     /\ \A i \in 1..Len(response.tool_calls) : ParameterSet(response.tool_calls[i])) =>
        /\ tool_result.success
        /\ tool_result.error = NoError
        /\ ResultIds(results) = CallIds(response.tool_calls)
        /\ \A i \in 1..Len(results) :
               \/ results[i].response.success
               \/ results[i].response.error
                      \in {ToolExceptionText, "Tool not found", "Tool disabled"}

\* C13: get_tool_schemas returns the schemas of exactly the registered tools
\* that are enabled at the call; list_tools returns one entry for every
\* registered tool, enabled or not, showing its flag.
C13_SchemasAndListing ==
    [][/\ listed'.op = "get_tool_schemas" =>
              listed'.schemas =
                  {n \in ToolNames : n \in tools /\ enabled[n]}
       /\ listed'.op = "list_tools" =>
              /\ {i.name : i \in listed'.infos} = tools
              /\ Cardinality(listed'.infos) = Cardinality(tools)
              /\ \A i \in listed'.infos : i.enabled = enabled[i.name]]_listed

\* with file_tool registered and disabled and web_tool registered and enabled,
\* get_tool_schemas has returned the schema of web_tool alone
C13_Witness ==
    /\ tools = {"file_tool", "web_tool"}
    /\ ~enabled["file_tool"]
    /\ enabled["web_tool"]
    /\ listed.op = "get_tool_schemas"
    /\ listed.schemas = {"web_tool"}

\* the positions at which sub occurs in str
Occurrences(str, sub) ==
    {i \in 1..Len(str) : /\ i + Len(sub) - 1 <= Len(str)
                         /\ \A j \in 1..Len(sub) : str[i + j - 1] = sub[j]}

\* lit occurs in str when letter case is ignored
OccursIgnoringCase(str, lit) ==
    \E i \in 1..Len(str) :
        /\ i + Len(lit) - 1 <= Len(str)
        /\ \A j \in 1..Len(lit) : LowerChar(str[i + j - 1]) = LowerChar(lit[j])

Denylisted(str, system) ==
    \E lit \in dangerous_commands(system) : OccursIgnoringCase(str, lit)

SingleMetacharacters == {c \in dangerous_chars : Len(c) = 1} \cup { << "$", "(" >> }

\* C14: the gate rejects a command iff it contains a denylist literal, letter
\* case ignored, or one of the metacharacters occurs in it more than twice; a
\* command with no denylist literal and at most two occurrences of each single
\* metacharacter is accepted.
C14_ShellGate ==
    command_safe.called =>
        /\ ~command_safe.value <=>
               \/ Denylisted(command, platform)
               \/ \E m \in dangerous_chars : Cardinality(Occurrences(command, m)) > 2
        /\ (/\ ~Denylisted(command, platform)
            /\ \A m \in SingleMetacharacters :
                   Cardinality(Occurrences(command, m)) <= 2) => command_safe.value

\* '&&&&&' was rejected: '&&' is counted twice in it, '&' five times
C14_Witness ==
    /\ command = << "&", "&", "&", "&", "&" >>
    /\ count(command, << "&", "&" >>) = 2
    /\ command_safe = [called |-> TRUE, value |-> FALSE]

\* C15: when the timeout expires with the child still running, the child is
\* killed and waited for before the call returns, and the call returns the
\* failure with error 'Command execution timeout'; the call returns in the end,
\* whatever the child does.
C15_ShellTimeout ==
    /\ [](shell_pc = "returned" /\ expired = "running" =>
              /\ signals = << "SIGKILL" >>
              /\ child = "reaped"
              /\ shell_response.success = FALSE
              /\ shell_response.error = "Command execution timeout")
    /\ [](expired = "no" => signals = << >>)
    /\ <>(shell_pc = "returned")

\* C16: once an initialization has left the instance in simulation mode, the
\* instance has no real driver at any later time, whatever later launch attempts
\* end in.
C16_SimulationPersists ==
    simulation_entered => driver = None

\* C17: a supported action called with its required parameters and served
\* without a driver returns success with mode "simulation" in its data; for
\* navigate the title is the simulation prefix followed by the url.
C17_SimulationResponses ==
    (/\ browser_call.action \in supported_actions
     /\ HasRequiredParameters(browser_call)
     /\ browser_call.driver = None) =>
        /\ browser_response.success
        /\ browser_response.data.mode = "simulation"
        /\ browser_call.action = "navigate" =>
               browser_response.data.title = << "simulated page - ", browser_call.url >>

\* C18: validate() returns true exactly when agent.api_key and agent.base_url
\* are non-empty, agent.max_tokens > 0, 0 <= agent.temperature <= 2,
\* workspace.max_size_mb > 0, browser.timeout_seconds > 0 and
\* search.max_results > 0; a value whose comparison raises a type error makes it
\* return false, and the default Settings() fails validation.
NonEmpty(v) == v.type = "str" /\ v.text # ""
IsNumber(v) == v.type \in {"int", "float"}
Positive(v) == IsNumber(v) /\ v.num > 0
C18_Validate ==
    valid.called =>
        /\ valid.value <=>
              /\ NonEmpty(settings.agent.api_key)
              /\ NonEmpty(settings.agent.base_url)
              /\ Positive(settings.agent.max_tokens)
              /\ IsNumber(settings.agent.temperature)
              /\ settings.agent.temperature.num \in 0..20
              /\ Positive(settings.workspace.max_size_mb)
              /\ Positive(settings.browser.timeout_seconds)
              /\ Positive(settings.search.max_results)
        /\ settings = DefaultSettings => ~valid.value

\* validate() has returned false for settings whose only flaw is a
\* search.max_results that cannot be compared with 0
C18_Witness ==
    /\ valid = [called |-> TRUE, value |-> FALSE]
    /\ settings =
          [DefaultSettings EXCEPT !.agent.api_key = StrValue("sk-key"),
                                  !.agent.base_url = StrValue("https://api"),
                                  !.agent.temperature = FloatValue(20),
                                  !.search.max_results = StrValue("10")]

\* C19: for every Settings instance s, save_to_file(p) followed by
\* load_from_file(p) yields a Settings whose fields in each of the seven
\* sections agent, workspace, browser, search, tools, logging and security equal
\* those of s.
Sections == {"agent", "workspace", "browser", "search", "tools", "logging", "security"}
C19_RoundTrip ==
    [][(config_file # Missing /\ loaded' # loaded) =>
          /\ loaded'.called
          /\ DOMAIN loaded'.value = Sections
          /\ \A section \in Sections :
                /\ DOMAIN loaded'.value[section] = DOMAIN settings[section]
                /\ \A key \in DOMAIN settings[section] :
                      loaded'.value[section][key] = settings[section][key]]_vars

\* settings holding strings that read as a number and as a boolean have been
\* saved and loaded again
C19_Witness ==
    /\ save_message = "saved"
    /\ loaded.called
    /\ loaded.value = settings
    /\ settings.agent.max_tokens = StrValue("4000")
    /\ settings.browser.headless = StrValue("true")
    /\ settings.agent.api_key = NoneValue
    /\ settings.security.allowed_domains = ListValue(<< StrValue("a.com") >>)

\* C20: startup carries out its steps in the order load settings, validate,
\* configure logging, initialize workspace, construct agent, and stops at the
\* first failure; when validate() fails, initialize returns failure with no
\* logging configured and no Workspace Manager or Agent Core constructed, the
\* REPL is never entered, and the process exits with status 1.
StartupOrder == << "load", "validate", "logging", "workspace", "agent", "repl" >>
ValidationFailed == valid.called /\ ~valid.value
C20_StartupOrder ==
    /\ [](Len(steps) <= Len(StartupOrder) /\ steps = SubSeq(StartupOrder, 1, Len(steps)))
    /\ [][startup_pc = "initialize_failed" =>
             steps' = steps /\ constructed' = constructed /\ exit_status' = "1"]_vars
    /\ [](ValidationFailed =>
             /\ steps = << "load", "validate" >>
             /\ constructed = {"settings"}
             /\ exit_status \in {"running", "1"})
    /\ (ValidationFailed ~> exit_status = "1")

\* a run whose configuration file holds a max_tokens that cannot be compared
\* has exited after validate() failed
C20_Witness ==
    /\ ValidationFailed
    /\ config_file # Missing
    /\ settings.agent.api_key = StrValue("sk-key")
    /\ settings.agent.max_tokens = StrValue("4000")
    /\ startup_pc = "exited"

\* C21: when the process is started with --debug, once initialization has
\* completed and the REPL runs, the level of the process-wide logger is DEBUG,
\* although initialization configured that logger with the settings' level.
C21_DebugLevel ==
    (options.debug /\ startup_pc = "repl") => logger.level = "DEBUG"

\* C22: is_safe_path(path, base) returns true only if the resolved path is base
\* itself or lies inside the directory tree rooted at base, and false for every
\* resolved path outside that tree, sibling directories whose names begin with
\* base's name included.
RECURSIVE Resolved(_, _)
Resolved(p, up) ==
    IF p = << >> THEN << >>
    ELSE IF p[Len(p)] = << ".", "." >> THEN Resolved(SubSeq(p, 1, Len(p) - 1), up + 1)
    ELSE IF up > 0 THEN Resolved(SubSeq(p, 1, Len(p) - 1), up - 1)
    ELSE Append(Resolved(SubSeq(p, 1, Len(p) - 1), 0), p[Len(p)])
InsideTree(path, base_path) ==
    /\ Len(base_path) <= Len(path)
    /\ SubSeq(path, 1, Len(base_path)) = base_path
C22_SafePath ==
    (helper_call.fn = "is_safe_path" /\ helper_result.done) =>
        (helper_result.safe <=>
            InsideTree(Resolved(helper_call.path, 0), Resolved(helper_call.base_path, 0)))

\* C24: clean_filename returns at most 255 characters for every name, and a
\* sanitized name longer than 255 is shortened in its stem only: the result ends
\* with the whole extension.
C24_FilenameLength ==
    (helper_call.fn = "clean_filename" /\ helper_result.done) =>
        /\ Len(helper_result.filename) <= 255
        /\ \A n \in {1, 254, 255, 256}, m \in {0, 3, 254, 255, 300} :
              (helper_call.filename = Repeat("a", n) \o << "." >> \o Repeat("b", m)
                  /\ n + 1 + m > 255 /\ m > 0) =>
                 /\ Len(helper_result.filename) >= m + 1
                 /\ SubSeq(helper_result.filename, Len(helper_result.filename) - m,
                           Len(helper_result.filename)) = << "." >> \o Repeat("b", m)

\* C23: the read of a text file of more than 50,000 characters returns success
\* with content equal to the first 5,000 characters followed by a truncation
\* note, and full_length equal to the true length; content of at most 50,000
\* characters, exactly 50,000 included, is returned unmodified and in full.
TrueLength(text) ==
    IF text = << >> THEN 0
    ELSE IF Len(text) = 1 THEN text[1].count
    ELSE IF Len(text) = 2 THEN text[1].count + text[2].count
    ELSE text[1].count + text[2].count + text[3].count
TextFile(path) ==
    /\ path \in DOMAIN files
    /\ Len(path) < 5 \/ SubSeq(path, Len(path) - 4, Len(path)) # << ".", "j", "s", "o", "n" >>
C23_ReadPreview ==
    (file_call.action = "read" /\ TextFile(file_call.path)) =>
        /\ file_response.success
        /\ TrueLength(files[file_call.path]) > 50000 =>
              /\ file_response.data.content =
                    << [char |-> "a", count |-> 5000],
                       [char |-> "truncation note", count |-> 1] >>
              /\ file_response.data.full_length = TrueLength(files[file_call.path])
        /\ TrueLength(files[file_call.path]) <= 50000 =>
              /\ file_response.data.content = files[file_call.path]
              /\ file_response.data.length = TrueLength(files[file_call.path])

\* a file of 50,001 characters has been read, and so has one of 50,000
C23_Witness ==
    /\ file_call.action = "read"
    /\ TextFile(file_call.path)
    /\ TrueLength(files[file_call.path]) = 50001
    /\ file_response.success
    /\ file_response.data.full_length = 50001

\* C29: after a successful write(p, c), a read with the same path p succeeds
\* and returns c (the preview of c when c has more than 50,000 characters),
\* for paths with and without directory separators or whitespace.
C29_WriteThenRead ==
    [][(/\ file_call.action = "write"
        /\ file_response.success
        /\ file_call'.action = "read"
        /\ file_call'.path = file_call.path)
       => /\ file_response'.success
          /\ file_response'.data.type = "text"
          /\ \/ file_response'.data.content = file_call.content
             \/ /\ TrueLength(file_call.content) > 50000
                /\ file_response'.data.full_length = TrueLength(file_call.content)]_vars

\* C25: an exception raised while handling one input line, other than a user
\* interrupt, is reported and the loop prompts for the next line; the loop
\* ends only on a user interrupt or on /exit or /quit, and then it does end.
C25_LoopSurvives ==
    [][/\ (last_line'.outcome = "error reported" /\ last_line' # last_line) =>
              /\ pc' = "prompt"
              /\ ENABLED ReadMessage(Lines[turn + 1]) \/ turn >= MaxTurns
       /\ (pc' = "exited" /\ pc # "exited") => (last_line'.kind = "interrupt" \/ SlashExit)
       /\ (last_line'.kind = "interrupt" /\ last_line' # last_line) => pc' = "exited"
       /\ pc # "exited"]_vars

\* an exception has been reported and a message line has been read after it
C25_Witness ==
    /\ last_line.outcome = "error reported"
    /\ pc = "ensure_tools"

C30_ResetKeepsHistory ==
    /\ [][/\ (last_line'.kind = "/reset" /\ last_line' # last_line) =>
                 conversation_history' = conversation_history
          /\ (conversation_history' = << >> /\ conversation_history # << >>) => SlashClear
         ]_vars
    /\ []((last_line.kind = "/reset" /\ llm_calls # << >> /\ conversation_history # << >>) =>
              LET context == llm_calls[1].messages
              IN  context[Len(context) - 1].content
                      = conversation_history[Len(conversation_history)].content)

\* after a turn and /reset the next request carries the history
C30_Witness ==
    /\ last_line.kind = "/reset"
    /\ llm_calls # << >>
    /\ conversation_history # << >>
    /\ Len(llm_calls[1].messages) > 2

\* C27: for an execute call whose command is empty or rejected by the safety
\* gate, no child process is ever created and no working directory is
\* resolved, and the call returns a failure ToolResponse, with the error
\* "Command blocked by security policy" for a rejected command.
EmptyCommand == \A i \in DOMAIN command : command[i] = " "
GateRejected == command_safe.called /\ ~command_safe.value
C27_RefusedBeforeSpawn ==
    /\ (shell_pc # "execute" /\ (EmptyCommand \/ GateRejected)) =>
           /\ child = "none"
           /\ signals = << >>
           /\ work_dir = "unresolved"
           /\ shell_pc = "returned"
           /\ ~shell_response.success
           /\ GateRejected => shell_response.error = "Command blocked by security policy"
    /\ (shell_pc # "execute" /\ ~EmptyCommand) => command_safe.called
    /\ work_dir # "unresolved" => command_safe = [called |-> TRUE, value |-> TRUE]

\* a command on the denylist was refused, and so was a blank one
C27_Witness ==
    /\ command = << "H", "a", "l", "t" >>
    /\ GateRejected
    /\ shell_pc = "returned"
    /\ shell_response.error = "Command blocked by security policy"

\* C28: with a real driver active, extract without a selector returns success
\* with the text of the page body (at most 10,000 characters); with a selector
\* it returns the text of the located element or an element-not-found failure.
C28_Extract ==
    (browser_call.action = "extract" /\ browser_call.driver = "webdriver") =>
        IF browser_call.selector = None
        THEN /\ browser_response.success
             /\ browser_response.data.mode = "real_browser"
        ELSE \/ browser_response.success /\ browser_response.data.mode = "real_browser"
             \/ ~browser_response.success /\ browser_response.error = "Element not found"

====
